---------------------------- MODULE Spec2Model ----------------------------
(***************************************************************************)
(* A model of the exact-inference core of CLUE_SSDP: dense factors with    *)
(* mixed-radix indexing (PGM.Factor, StateTable), lazily memoized sum and  *)
(* max factors, variable elimination (VE.eliminate_var), the decision-     *)
(* network solver (VE_DN.optimize) and the oracle built on top of it       *)
(* (TruePolicyAgent).                                                      *)
(*                                                                         *)
(* Numbers are exact rationals <<n, d>> (d > 0, lowest terms); the Python  *)
(* code computes with floats, so rounding is outside the model.  A Python  *)
(* cell that may be None is an option: <<>> is None, <<x>> holds x.        *)
(***************************************************************************)
EXTENDS Integers, Sequences, FiniteSets, TLC

(***************************************************************************)
(* Exact rational arithmetic.                                              *)
(***************************************************************************)
RECURSIVE GCD(_, _)
GCD(a, b) == IF b = 0 THEN a ELSE GCD(b, a % b)

Abs(x) == IF x < 0 THEN -x ELSE x

RNorm(n, d) ==
    LET g == GCD(Abs(n), d) IN <<n \div g, d \div g>>

Rat(n) == <<n, 1>>
RZero == Rat(0)
ROne == Rat(1)
RAdd(a, b) == RNorm(a[1] * b[2] + b[1] * a[2], a[2] * b[2])
RMul(a, b) == RNorm(a[1] * b[1], a[2] * b[2])
RLess(a, b) == a[1] * b[2] < b[1] * a[2]
RLeq(a, b) == a[1] * b[2] <= b[1] * a[2]

(***************************************************************************)
(* Python's None and truthiness.                                           *)
(***************************************************************************)
None == <<>>
Some(x) == <<x>>
\* `if self.values[index]:` -- None and the number 0 are both falsy
Truthy(cell) == cell # None /\ cell[1] # RZero

(***************************************************************************)
(* Small sequence helpers standing for Python list operations.             *)
(***************************************************************************)
Range(s) == {s[i] : i \in 1..Len(s)}
Contains(s, x) == \E i \in 1..Len(s) : s[i] = x
\* list.index(x): the first position holding x (1-based here)
IndexOf(s, x) == CHOOSE i \in 1..Len(s) : s[i] = x /\ \A j \in 1..(i - 1) : s[j] # x
\* list.remove(x): drops the first occurrence of x
Remove(s, x) ==
    LET i == IndexOf(s, x) IN SubSeq(s, 1, i - 1) \o SubSeq(s, i + 1, Len(s))
RECURSIVE Reverse(_)
Reverse(s) == IF s = <<>> THEN <<>> ELSE Reverse(Tail(s)) \o <<Head(s)>>

(***************************************************************************)
(* PGM.Variable and PGM.Factor: sizes, offsets and the index bijection.    *)
(* dom maps a variable name to its domain (a sequence of values).          *)
(***************************************************************************)
\* Variable.__init__: val_to_index[val] = i for i, val in enumerate(domain);
\* a later duplicate overwrites an earlier one (0-based result)
val_to_index(domain, val) ==
    (CHOOSE i \in 1..Len(domain) :
        domain[i] = val /\ \A j \in (i + 1)..Len(domain) : domain[j] # val) - 1

\* Factor.__init__: size *= variables[i].size for i from the last to the first
RECURSIVE FactorSize(_, _)
FactorSize(dom, variables) ==
    IF variables = <<>> THEN 1
    ELSE Len(dom[Head(variables)]) * FactorSize(dom, Tail(variables))

\* Factor.__init__: var_offsets[variables[i]] = product of the sizes after i
\* a slip: the offset is the product of the sizes before i
var_offsets_before(dom, variables, i) == FactorSize(dom, SubSeq(variables, 1, i - 1))

var_offsets(dom, variables, i) == FactorSize(dom, SubSeq(variables, i + 1, Len(variables)))

RECURSIVE IndexSum(_, _, _, _)
IndexSum(dom, variables, assignment, i) ==
    IF i > Len(variables) THEN 0
    ELSE val_to_index(dom[variables[i]], assignment[variables[i]])
            * var_offsets(dom, variables, i)
         + IndexSum(dom, variables, assignment, i + 1)

\* Factor.assignment_to_index (0-based, as in the code)
assignment_to_index(dom, variables, assignment) == IndexSum(dom, variables, assignment, 1)

\* Factor.index_to_assignment: digits taken from the last variable to the first
RECURSIVE IndexDigits(_, _, _, _)
IndexDigits(dom, variables, index, i) ==
    IF i = 0 THEN <<>>
    ELSE LET n == Len(dom[variables[i]])
         IN IndexDigits(dom, variables, index \div n, i - 1)
              \o <<dom[variables[i]][(index % n) + 1]>>

index_to_assignment(dom, variables, index) ==
    LET digits == IndexDigits(dom, variables, index, Len(variables))
    IN [v \in Range(variables) |-> digits[IndexOf(variables, v)]]

\* dict.copy() followed by d[k] = x
Put(assignment, k, x) == [v \in DOMAIN assignment \cup {k} |-> IF v = k THEN x ELSE assignment[v]]
EmptyAsst == [v \in {} |-> FALSE]
\* every variable of the scope has a value (no KeyError in assignment_to_index)
Covers(assignment, variables) == Range(variables) \subseteq DOMAIN assignment


(***************************************************************************)
(* The factor objects.  heap is the sequence of all Factor objects made so *)
(* far, in creation order (Factor.nextid); a factor is named by its        *)
(* position.  Fields: kind (the Python class), vars (Factor.variables),    *)
(* values (one option cell per index), var (var_summed_out / dvar), facs   *)
(* (Factor_sum.factors / <<Factor_max.factor>>), df (the Factor_DF of a    *)
(* Factor_max).  computes is bookkeeping of the model, not of the program: *)
(* how often the compute branch of get_value has run for each cell.        *)
(***************************************************************************)
NewFactor(kind, vars, values, var, facs, df) ==
    [kind |-> kind, vars |-> vars, values |-> values, var |-> var,
     facs |-> facs, df |-> df, computes |-> [i \in 1..Len(values) |-> 0]]

\* Factor_stored.__init__ through Prob.__init__ / Utility.__init__
Factor_stored(kind, vars, table) ==
    NewFactor(kind, vars, [i \in 1..Len(table) |-> Some(table[i])], "", <<>>, 0)

\* Factor_sum.__init__: the scope is the union of the factors' scopes
\* without var, in order of first appearance; values = [None]*size
RECURSIVE UnionVars(_, _, _, _)
UnionVars(heap, facs, var, acc) ==
    IF facs = <<>> THEN acc
    ELSE LET more == SelectSeq(heap[Head(facs)].vars,
                               LAMBDA v : v # var /\ ~Contains(acc, v))
         IN UnionVars(heap, Tail(facs), var, acc \o more)

Factor_sum(dom, heap, var, facs) ==
    LET vars == UnionVars(heap, facs, var, <<>>)
    IN NewFactor("Factor_sum", vars, [i \in 1..FactorSize(dom, vars) |-> None],
                 var, facs, 0)

\* Factor_max.__init__: the scope is the factor's scope without dvar; the
\* decision function is a Factor_DF of the same scope, created right after
Factor_max_vars(heap, dvar, fac) == SelectSeq(heap[fac].vars, LAMBDA v : v # dvar)

Factor_max(dom, heap, dvar, fac, dfId) ==
    LET vars == Factor_max_vars(heap, dvar, fac)
    IN NewFactor("Factor_max", vars, [i \in 1..FactorSize(dom, vars) |-> None],
                 dvar, <<fac>>, dfId)

Factor_DF(dom, heap, dvar, fac) ==
    LET vars == Factor_max_vars(heap, dvar, fac)
    IN NewFactor("Factor_DF", vars, [i \in 1..FactorSize(dom, vars) |-> None],
                 dvar, <<>>, 0)

(***************************************************************************)
(* get_value.  The result is [val, heap]: the option cell returned and the *)
(* heap with the caches written on the way.                                *)
(***************************************************************************)
RECURSIVE get_value(_, _, _, _)
RECURSIVE ProdLoop(_, _, _, _, _)
RECURSIVE SumLoop(_, _, _, _, _, _)
RECURSIVE MaxLoop(_, _, _, _, _, _)

\* for fac in self.factors: prod *= fac.get_value(new_asst)
ProdLoop(dom, heap, facs, asst, prod) ==
    IF facs = <<>> THEN [val |-> prod, heap |-> heap]
    ELSE LET r == get_value(dom, heap, Head(facs), asst)
         IN ProdLoop(dom, r.heap, Tail(facs), asst, RMul(prod, r.val[1]))

\* for val in self.var_summed_out.domain: ... total += prod
SumLoop(dom, heap, id, asst, k, total) ==
    LET f == heap[id] IN
    IF k > Len(dom[f.var]) THEN [val |-> total, heap |-> heap]
    ELSE LET p == ProdLoop(dom, heap, f.facs, Put(asst, f.var, dom[f.var][k]), ROne)
         IN SumLoop(dom, p.heap, id, asst, k + 1, RAdd(total, p.val))

\* a slip of the comparison: the smaller value wins
BetterIfSmaller(best, fac_val) == best = None \/ RLess(fac_val, best[1][1])

\* a slip of the comparison: on a tie the later value wins
BetterOrEqual(best, fac_val) == best = None \/ RLeq(best[1][1], fac_val)

\* Factor_max.get_value line 252: if fac_val>max_val, max_val starting at
\* -infinity (best = None)
Better(best, fac_val) == best = None \/ RLess(best[1][1], fac_val)

\* for elt in self.dvar.domain: ... if fac_val>max_val: ...
\* best is None while max_val is still -infinity, else <<max_val, best_elt>>
MaxLoop(dom, heap, id, asst, k, best) ==
    LET f == heap[id] IN
    IF k > Len(dom[f.var]) THEN [val |-> best, heap |-> heap]
    ELSE LET elt == dom[f.var][k]
             r == get_value(dom, heap, f.facs[1], Put(asst, f.var, elt))
             better == Better(best, r.val[1])
         IN MaxLoop(dom, r.heap, id, asst, k + 1,
                    IF better THEN Some(<<r.val[1], elt>>) ELSE best)

\* Factor_sum.get_value
Factor_sum_get_value(dom, heap, id, asst) ==
    LET f == heap[id]
        index == assignment_to_index(dom, f.vars, asst)
    IN IF Truthy(f.values[index + 1])
       THEN [val |-> f.values[index + 1], heap |-> heap]
       ELSE LET r == SumLoop(dom, heap, id, asst, 1, RZero)
            IN [val |-> Some(r.val),
                heap |-> [r.heap EXCEPT ![id].values[index + 1] = Some(r.val),
                                        ![id].computes[index + 1] = @ + 1]]

\* Factor_max.get_value: also records the argmax in the decision function
Factor_max_get_value(dom, heap, id, asst) ==
    LET f == heap[id]
        index == assignment_to_index(dom, f.vars, asst)
    IN IF Truthy(f.values[index + 1])
       THEN [val |-> f.values[index + 1], heap |-> heap]
       ELSE LET r == MaxLoop(dom, heap, id, asst, 1, None)
                max_val == r.val[1][1]
                best_elt == r.val[1][2]
            IN [val |-> Some(max_val),
                heap |-> [r.heap EXCEPT ![id].values[index + 1] = Some(max_val),
                                        ![id].computes[index + 1] = @ + 1,
                                        ![f.df].values[index + 1] = Some(best_elt)]]

\* Factor_stored.get_value (Prob, Utility, Factor_DF): a plain table lookup
Factor_stored_get_value(dom, heap, id, asst) ==
    [val |-> heap[id].values[assignment_to_index(dom, heap[id].vars, asst) + 1],
     heap |-> heap]

get_value(dom, heap, id, asst) ==
    IF heap[id].kind = "Factor_sum" THEN Factor_sum_get_value(dom, heap, id, asst)
    ELSE IF heap[id].kind = "Factor_max" THEN Factor_max_get_value(dom, heap, id, asst)
    ELSE Factor_stored_get_value(dom, heap, id, asst)

(***************************************************************************)
(* VE.eliminate_var: the result is [factors, heap].                        *)
(***************************************************************************)
contains_var(heap, factors, var) ==
    SelectSeq(factors, LAMBDA fac : Contains(heap[fac].vars, var))

not_contains_var(heap, factors, var) ==
    SelectSeq(factors, LAMBDA fac : ~Contains(heap[fac].vars, var))

\* a slip: the new factor multiplies only the first factor that mentions var
eliminate_var_first_only(dom, heap, factors, var) ==
    IF contains_var(heap, factors, var) = <<>>
    THEN [factors |-> factors, heap |-> heap]
    ELSE [factors |-> Append(not_contains_var(heap, factors, var), Len(heap) + 1),
          heap |-> Append(heap, Factor_sum(dom, heap, var,
                                           <<Head(contains_var(heap, factors, var))>>))]

eliminate_var(dom, heap, factors, var) ==
    IF contains_var(heap, factors, var) = <<>>
    THEN [factors |-> factors, heap |-> heap]
    ELSE [factors |-> Append(not_contains_var(heap, factors, var), Len(heap) + 1),
          heap |-> Append(heap, Factor_sum(dom, heap, var, contains_var(heap, factors, var)))]


(***************************************************************************)
(* The influence diagram (InfluenceDiagram, RandomSSDP.build_network).     *)
(* env is a record: chance and decision (node names, in the order of       *)
(* state_space and action_space), cparents (the ordered parents of each    *)
(* chance node's Prob), dparents (the parent set of each DecisionVariable),*)
(* reward_parents (the scope of the Utility), cpt, utility, domains.       *)
(***************************************************************************)
\* InfluenceDiagram.__init__: self.nodes = self.chance+self.decision
Nodes(env) == env.chance \o env.decision

\* InfluenceDiagram.__init__: node_types is "state" or "action"
node_types(env, node) == IF Contains(env.chance, node) THEN "state" ELSE "action"

\* DecisionVariable.__init__: all_vars = set(parents) | {self}
all_vars(env, dvar) == env.dparents[dvar] \cup {dvar}

\* isinstance(v, DecisionVariable)
IsDecisionVariable(env, v) == Contains(env.decision, v)

\* dn.factors = factor_list+[utility]: one Prob per chance node, over
\* pars+[var], then the Utility
InitialHeap(env) ==
    [i \in 1..(Len(env.chance) + 1) |->
        IF i <= Len(env.chance)
        THEN Factor_stored("Prob", Append(env.cparents[env.chance[i]], env.chance[i]),
                           env.cpt[env.chance[i]])
        ELSE Factor_stored("Utility", env.reward_parents, env.utility)]

(***************************************************************************)
(* VE_DN.optimize.  A run is a record [heap, proj_factors, policy, status, *)
(* value]; status is "running" inside the loop over elim_order,            *)
(* "processed" after it, and then "returned" or the error raised.          *)
(***************************************************************************)
IllegalOrderError == "AssertionError: illegal variable order"
ResidualError == "AssertionError: Should there be only one element of proj_factors?"
KeyError == "KeyError"

\* lines 365-368 (obs = {}: project_observations returns each factor itself)
OptimizeStart(env) ==
    [heap |-> InitialHeap(env),
     proj_factors |-> [i \in 1..(Len(env.chance) + 1) |-> i],
     policy |-> <<>>, status |-> "running", value |-> None]

\* line 371: the factors that mention v and lie within v.all_vars
to_max(env, run, v) ==
    SelectSeq(run.proj_factors,
              LAMBDA fac : Contains(run.heap[fac].vars, v)
                           /\ Range(run.heap[fac].vars) \subseteq all_vars(env, v))

\* lines 370-381: a decision variable is maximized out of its one factor
OptimizeMax(env, run, v) ==
    LET tm == to_max(env, run, v)
        newFac == Len(run.heap) + 1
        dfId == Len(run.heap) + 2
    IN IF Len(tm) # 1
       THEN [run EXCEPT !.status = IllegalOrderError]
       ELSE [run EXCEPT
               !.heap = run.heap
                          \o <<Factor_max(env.domains, run.heap, v, tm[1], dfId),
                               Factor_DF(env.domains, run.heap, v, tm[1])>>,
               !.policy = Append(run.policy, dfId),
               !.proj_factors =
                   Append(SelectSeq(run.proj_factors, LAMBDA fac : fac # tm[1]), newFac)]

\* lines 382-383: a chance variable is summed out
OptimizeSum(env, run, v) ==
    LET r == eliminate_var(env.domains, run.heap, run.proj_factors, v)
    IN [run EXCEPT !.heap = r.heap, !.proj_factors = r.factors]

\* the body of the loop of lines 369-384 for one variable
OptimizeVar(env, run, v) ==
    IF IsDecisionVariable(env, v) THEN OptimizeMax(env, run, v)
    ELSE OptimizeSum(env, run, v)

\* lines 401-412: with more than one factor left, every Factor_sum whose
\* first cell (computed if it is still None) equals 1 is dropped
RECURSIVE HackyFix(_, _, _, _)
HackyFix(env, heap, facs, kept) ==
    IF facs = <<>> THEN [factors |-> kept, heap |-> heap]
    ELSE LET fac == Head(facs) IN
         IF heap[fac].kind = "Factor_sum"
         THEN LET h == IF heap[fac].values[1] = None
                       THEN get_value(env.domains, heap, fac,
                                index_to_assignment(env.domains, heap[fac].vars, 0)).heap
                       ELSE heap
              IN HackyFix(env, h, Tail(facs),
                          IF h[fac].values[1] # Some(ROne) THEN Append(kept, fac) ELSE kept)
         ELSE HackyFix(env, heap, Tail(facs), Append(kept, fac))

\* lines 385-416
OptimizeEnd(env, run) ==
    LET fixed == IF Len(run.proj_factors) # 1
                 THEN HackyFix(env, run.heap, run.proj_factors, <<>>)
                 ELSE [factors |-> run.proj_factors, heap |-> run.heap]
    IN IF Len(fixed.factors) # 1
       THEN [run EXCEPT !.heap = fixed.heap, !.proj_factors = fixed.factors,
                        !.status = ResidualError]
       ELSE IF fixed.heap[fixed.factors[1]].vars # <<>>
       THEN \* get_value({}) on a factor with a non-empty scope
            [run EXCEPT !.heap = fixed.heap, !.proj_factors = fixed.factors,
                        !.status = KeyError]
       ELSE LET r == get_value(env.domains, fixed.heap, fixed.factors[1], EmptyAsst)
            IN [run EXCEPT !.heap = r.heap, !.proj_factors = fixed.factors,
                           !.status = "returned", !.value = r.val]

\* the loop of optimize over a whole order
RECURSIVE OptimizeLoop(_, _, _)
OptimizeLoop(env, run, order) ==
    IF order = <<>> \/ run.status # "running" THEN run
    ELSE OptimizeLoop(env, OptimizeVar(env, run, Head(order)), Tail(order))

\* optimize(elim_order) as a whole
optimize(env, elim_order) ==
    LET run == OptimizeLoop(env, OptimizeStart(env), elim_order)
    IN IF run.status = "running" THEN OptimizeEnd(env, run) ELSE run


(***************************************************************************)
(* TruePolicyAgent.__init__: the graph of the diagram.                     *)
(***************************************************************************)
\* lines 25-44: parents[node]
parents(env, node) ==
    IF node = "reward" THEN Range(env.reward_parents)
    ELSE IF Contains(env.chance, node) THEN Range(env.cparents[node])
    ELSE env.dparents[node]

\* lines 25-44: children[node]
children(env, node) ==
    {c \in Range(Nodes(env)) \cup {"reward"} : node \in parents(env, c)}

\* line 53: nx.ancestors(graph, 'reward'); the graph holds only the nodes
\* that occur in an edge
RECURSIVE AncestorClosure(_, _)
AncestorClosure(env, S) ==
    LET more == S \cup UNION {parents(env, n) : n \in S}
    IN IF more = S THEN S ELSE AncestorClosure(env, more)

RewardInGraph(env) == env.reward_parents # <<>>
reward_ancestors(env) == AncestorClosure(env, {"reward"}) \ {"reward"}

(***************************************************************************)
(* TruePolicyAgent.getEliminationOrder.  A Python for loop over a list     *)
(* that the body shrinks keeps its position: the forward loop then skips   *)
(* the element that moved into the freed slot.                             *)
(***************************************************************************)
\* lines 144-153: one pass of the for loop over dec_nodes_left
RECURSIVE DecNodesPass(_, _, _, _)
DecNodesPass(env, dec_nodes_left, i, dec_nodes) ==
    IF i > Len(dec_nodes_left)
    THEN [dec_nodes_left |-> dec_nodes_left, dec_nodes |-> dec_nodes]
    ELSE LET dec_node == dec_nodes_left[i]
             can_add == \A parent \in parents(env, dec_node) :
                            ~Contains(dec_nodes_left, parent)
         IN IF can_add
            THEN DecNodesPass(env, Remove(dec_nodes_left, dec_node), i + 1,
                              Append(dec_nodes, dec_node))
            ELSE DecNodesPass(env, dec_nodes_left, i + 1, dec_nodes)

\* lines 141-153: while len(dec_nodes_left)>0
RECURSIVE OrderDecisionNodes(_, _, _)
OrderDecisionNodes(env, dec_nodes_left, dec_nodes) ==
    IF dec_nodes_left = <<>> THEN dec_nodes
    ELSE LET r == DecNodesPass(env, dec_nodes_left, 1, dec_nodes)
         IN OrderDecisionNodes(env, r.dec_nodes_left, r.dec_nodes)

\* lines 163-173: for node in reversed(nodes_left), with a decision pending;
\* st is [order, nodes_left, added, added_node]
RECURSIVE ChancePass(_, _, _, _)
ChancePass(env, st, i, last_dec) ==
    IF i < 1 \/ i > Len(st.nodes_left) THEN st
    ELSE LET node == st.nodes_left[i]
             can_add == \A child \in children(env, node) :
                            ~(child # "reward" /\ child \notin st.added /\ child = last_dec)
         IN IF can_add /\ node_types(env, node) = "chance"
            THEN ChancePass(env,
                            [order |-> Append(st.order, node),
                             nodes_left |-> Remove(st.nodes_left, node),
                             added |-> st.added \cup {node},
                             added_node |-> TRUE],
                            i - 1, last_dec)
            ELSE ChancePass(env, st, i - 1, last_dec)

\* lines 159-183: while len(nodes_left)>0
RECURSIVE OrderNodes(_, _, _)
OrderNodes(env, st, dec_nodes) ==
    IF st.nodes_left = <<>> THEN st.order
    ELSE IF dec_nodes # <<>>
    THEN LET last_dec == dec_nodes[Len(dec_nodes)]
             p == ChancePass(env, [st EXCEPT !.added_node = FALSE],
                             Len(st.nodes_left), last_dec)
         IN IF ~p.added_node
            THEN OrderNodes(env,
                            [order |-> Append(p.order, last_dec),
                             nodes_left |-> Remove(p.nodes_left, last_dec),
                             added |-> p.added \cup {last_dec},
                             added_node |-> FALSE],
                            SubSeq(dec_nodes, 1, Len(dec_nodes) - 1))
            ELSE OrderNodes(env, p, dec_nodes)
    ELSE \* lines 180-183: the rest, last first
         st.order \o Reverse(st.nodes_left)

\* lines 138-183: the order before the non-ancestors are dropped
UnprunedOrder(env) ==
    OrderNodes(env,
               [order |-> <<>>, nodes_left |-> Nodes(env), added |-> {},
                added_node |-> FALSE],
               OrderDecisionNodes(env, env.decision, <<>>))

\* lines 185-187: for node in order: ... order.remove(node)
RECURSIVE PruneLoop(_, _, _)
PruneLoop(order, i, ancestors) ==
    IF i > Len(order) THEN order
    ELSE IF order[i] \notin ancestors
    THEN PruneLoop(Remove(order, order[i]), i + 1, ancestors)
    ELSE PruneLoop(order, i + 1, ancestors)

\* lines 126-188
getEliminationOrder(env, ancestors) == PruneLoop(UnprunedOrder(env), 1, ancestors)

(***************************************************************************)
(* TruePolicyAgent.act and TruePolicyAgent.expected_utility.               *)
(***************************************************************************)
\* lines 60-62: decision_functions[dvar.name], the last rule of a variable
HasDecisionFunction(heap, policy, dvar) ==
    \E i \in 1..Len(policy) : heap[policy[i]].var = dvar

decision_function(heap, policy, dvar) ==
    policy[CHOOSE i \in 1..Len(policy) :
              heap[policy[i]].var = dvar
              /\ \A j \in (i + 1)..Len(policy) : heap[policy[j]].var # dvar]

\* lines 79-85: the loop over env.action_space; the result is [status,
\* action], action mapping each decision assigned so far to an option cell
RECURSIVE ActLoop(_, _, _, _, _, _)
ActLoop(env, heap, policy, decisions, running_state, action) ==
    IF decisions = <<>> THEN [status |-> "returned", action |-> action]
    ELSE LET decision == Head(decisions) IN
         IF ~HasDecisionFunction(heap, policy, decision)
         THEN [status |-> KeyError, action |-> action]
         ELSE LET df == decision_function(heap, policy, decision) IN
              IF ~Covers(running_state, heap[df].vars)
              THEN [status |-> KeyError, action |-> action]
              ELSE LET cell == get_value(env.domains, heap, df, running_state).val
                   IN \* a None read from an unfilled rule is no domain value: a
                      \* later rule that needs this variable raises KeyError, as
                      \* it does here for a variable without a value
                      ActLoop(env, heap, policy, Tail(decisions),
                              IF cell = None THEN running_state
                              ELSE Put(running_state, decision, cell[1]),
                              Put(action, decision, cell))

act(env, heap, policy, state) ==
    ActLoop(env, heap, policy, env.decision, state, EmptyAsst)

\* lines 98-124, for a state and an action that together give a value to
\* every parent of the reward: no variable of the projected reward factor
\* is left to query, and the sum has the single term reward_fac.get_value
expected_utility(env, state, action) ==
    LET state_vars == [v \in DOMAIN state \cup DOMAIN action |->
                          IF v \in DOMAIN action THEN action[v] ELSE state[v]]
    IN env.utility[assignment_to_index(env.domains, env.reward_parents, state_vars) + 1]


(***************************************************************************)
(* The diagrams the runs start from.  Every variable is boolean, as in     *)
(* RandomSSDP.  Nodes are listed parents first: a chance node's parents    *)
(* are earlier chance nodes (InfluenceDiagram.sample draws them in list    *)
(* order), a decision's parents are chance nodes and earlier decisions     *)
(* (TruePolicyAgent.act assigns them in list order), so the graph is       *)
(* acyclic and no decision is a parent of a chance node.                   *)
(***************************************************************************)
ChanceNames == <<"C0", "C1">>
DecisionNames == <<"A0", "A1">>
Boolean == <<FALSE, TRUE>>
\* the numbers of chance and decision nodes of the diagrams
Shapes == {<<0, 1>>, <<0, 2>>, <<1, 1>>, <<1, 2>>, <<2, 1>>}

\* the rows of the conditional tables: P(FALSE | parents) is one of these
Probs == {RNorm(1, 2), ROne}
\* the entries of the utility tables (reward_range = [-1,1])
Utils == {Rat(-1), RZero, ROne}

Earlier(s, x) == {s[i] : i \in 1..(IndexOf(s, x) - 1)}
SeqOfSubset(s, S) == SelectSeq(s, LAMBDA x : x \in S)

RECURSIVE Pow2(_)
Pow2(n) == IF n = 0 THEN 1 ELSE 2 * Pow2(n - 1)

\* a conditional table: for each parent assignment the row p, 1-p
RECURSIVE CptOfRows(_)
CptOfRows(rows) ==
    IF rows = <<>> THEN <<>>
    ELSE <<Head(rows), RAdd(ROne, RMul(Rat(-1), Head(rows)))>> \o CptOfRows(Tail(rows))

CptTables(nparents) == {CptOfRows(r) : r \in [1..Pow2(nparents) -> Probs]}

\* utility tables: every table on up to two parents; with more parents the
\* first parents choose among the four-entry UtilityBlocks
UtilityBlocks ==
    {<<Rat(1), Rat(-1), Rat(-1), Rat(1)>>, <<Rat(0), Rat(0), Rat(0), Rat(1)>>,
     <<Rat(1), Rat(0), Rat(0), Rat(0)>>, <<Rat(0), Rat(1), Rat(0), Rat(-1)>>}

RECURSIVE BlockTables(_)
BlockTables(nparents) ==
    IF nparents <= 2 THEN UtilityBlocks
    ELSE {a \o b : a \in BlockTables(nparents - 1), b \in BlockTables(nparents - 1)}

UtilityTables(nparents) ==
    IF nparents <= 2 THEN [1..Pow2(nparents) -> Utils] ELSE BlockTables(nparents)

\* the diagram of the given nodes, parents and tables
Diagram(chance, decision, cp, dp, rp, cpt, u) ==
    [chance |-> chance, decision |-> decision,
     cparents |-> [c \in Range(chance) |-> SeqOfSubset(chance, cp[c])],
     dparents |-> dp,
     reward_parents |-> SeqOfSubset(chance \o decision, rp),
     cpt |-> cpt, utility |-> u,
     domains |-> [n \in Range(chance \o decision) |-> Boolean]]

\* env is one of the diagrams of the shapes
IsDiagram(e) ==
    \E sh \in Shapes :
      LET chance == SubSeq(ChanceNames, 1, sh[1])
          decision == SubSeq(DecisionNames, 1, sh[2])
          C == Range(chance)
          D == Range(decision)
      IN \E cp \in {g \in [C -> SUBSET C] : \A c \in C : g[c] \subseteq Earlier(chance, c)} :
         \E dp \in {g \in [D -> SUBSET (C \cup D)] :
                       \A d \in D : g[d] \subseteq C \cup Earlier(decision, d)} :
         \E rp \in SUBSET (C \cup D) :
         \E cpt \in {f \in [C -> UNION {CptTables(k) : k \in 0..sh[1]}] :
                       \A c \in C : Len(f[c]) = 2 * Pow2(Cardinality(cp[c]))} :
         \E u \in UtilityTables(Cardinality(rp)) :
            e = Diagram(chance, decision, cp, dp, rp, cpt, u)

\* the full states of a diagram: every chance node has a value
States(env) == [Range(env.chance) -> Range(Boolean)]
\* the joint actions: every decision has a value
JointActions(env) == [Range(env.decision) -> Range(Boolean)]

(***************************************************************************)
(* The state of a run: the diagram, the construction of the oracle         *)
(* (TruePolicyAgent.__init__: the order, then optimize variable by         *)
(* variable), and the last call of act.                                    *)
(***************************************************************************)
VARIABLES env, pc, order, pos, run, actState, actResult, last, table, clue,
          expert

vars == <<env, pc, order, pos, run, actState, actResult, last, table, clue,
         expert>>

\* no call of the VE and no StateTable yet
NoCall == [op |-> "none"]
NoTable == [built |-> FALSE]
\* no ClueAgent and no expert constructed
NoAgent == [built |-> FALSE]
NoExpert == [built |-> FALSE]

NoRun == [heap |-> <<>>, proj_factors |-> <<>>, policy |-> <<>>,
          status |-> "none", value |-> None]
NoAct == [status |-> "none", action |-> EmptyAsst]

Init ==
    /\ IsDiagram(env)
    /\ pc = "start"
    /\ order = <<>>
    /\ pos = 0
    /\ run = NoRun
    /\ actState = EmptyAsst
    /\ actResult = NoAct
    /\ last = NoCall
    /\ table = NoTable
    /\ clue = NoAgent
    /\ expert = NoExpert

\* TruePolicyAgent.__init__ lines 13-56 up to the loop of optimize
Construct ==
    /\ pc = "start"
    /\ IF RewardInGraph(env)
       THEN /\ order' = getEliminationOrder(env, reward_ancestors(env))
            /\ run' = OptimizeStart(env)
            /\ pos' = 1
            /\ pc' = "optimize"
       ELSE \* nx.ancestors raises: 'reward' is not a node of the graph
            /\ run' = [NoRun EXCEPT !.status = "NetworkXError"]
            /\ pc' = "failed"
            /\ UNCHANGED <<order, pos>>
    /\ UNCHANGED <<env, actState, actResult, last, table, clue, expert>>

\* one turn of the loop of optimize
Eliminate ==
    /\ pc = "optimize"
    /\ pos <= Len(order)
    /\ run' = OptimizeVar(env, run, order[pos])
    /\ pos' = pos + 1
    /\ pc' = IF run'.status = "running" THEN "optimize" ELSE "failed"
    /\ UNCHANGED <<env, order, actState, actResult, last, table, clue, expert>>

\* the loop of optimize is over
Processed == pc = "optimize" /\ pos > Len(order)

\* optimize lines 385-416, then TruePolicyAgent.__init__ lines 57-62
Finish ==
    /\ Processed
    /\ run' = OptimizeEnd(env, run)
    /\ pc' = IF run'.status = "returned" THEN "ready" ELSE "failed"
    /\ UNCHANGED <<env, order, pos, actState, actResult, last, table, clue, expert>>

\* TruePolicyAgent.act(state)
Act ==
    /\ pc = "ready"
    /\ \E s \in States(env) :
          /\ actState' = s
          /\ actResult' = act(env, run.heap, run.policy, s)
    /\ UNCHANGED <<env, pc, order, pos, run, last, table, clue, expert>>

Next == Construct \/ Eliminate \/ Finish \/ Act

Spec == Init /\ [][Next]_vars


(***************************************************************************)
(* optimize on an order the caller chooses: any order that lists every     *)
(* chance and decision variable once.                                      *)
(***************************************************************************)
Perms(S) == {p \in [1..Cardinality(S) -> S] : \A i, j \in 1..Cardinality(S) : p[i] = p[j] => i = j}

\* the diagrams optimize is run on with a free order
OrderShapes == {<<0, 1>>, <<0, 2>>, <<1, 1>>, <<1, 2>>}

IsDiagramOfShapes(e, shapes) == IsDiagram(e) /\ <<Len(e.chance), Len(e.decision)>> \in shapes

InitOrder ==
    /\ IsDiagramOfShapes(env, OrderShapes)
    /\ pc = "start"
    /\ order = <<>>
    /\ pos = 0
    /\ run = NoRun
    /\ actState = EmptyAsst
    /\ actResult = NoAct
    /\ last = NoCall
    /\ table = NoTable
    /\ clue = NoAgent
    /\ expert = NoExpert

\* VE_DN(env.dn).optimize(elim_order) up to the loop
ChooseOrder ==
    /\ pc = "start"
    /\ \E p \in Perms(Range(Nodes(env))) : order' = p
    /\ run' = OptimizeStart(env)
    /\ pos' = 1
    /\ pc' = "optimize"
    /\ UNCHANGED <<env, actState, actResult, last, table, clue, expert>>

NextOrder == ChooseOrder \/ Eliminate \/ Finish

SpecOrder == InitOrder /\ [][NextOrder]_vars

(***************************************************************************)
(* A variable eliminator at work: VE(env.dn), its list of factors, calls   *)
(* of eliminate_var and calls of get_value on the factors of the list.     *)
(***************************************************************************)
\* the number of get_value calls made on one eliminator
MaxQueries == 2

\* the diagrams the eliminator is run on
VEShapes == {<<1, 1>>}

\* the full assignments of a scope
Assignments(dom, variables) == [Range(variables) -> UNION {Range(dom[v]) : v \in Range(variables)}]

InitVE ==
    /\ IsDiagramOfShapes(env, VEShapes)
    /\ pc = "ve"
    /\ order = <<>>
    /\ pos = 0
    /\ run = OptimizeStart(env)
    /\ actState = EmptyAsst
    /\ actResult = NoAct
    /\ last = NoCall
    /\ table = NoTable
    /\ clue = NoAgent
    /\ expert = NoExpert

\* projFactors = self.eliminate_var(projFactors, v)
EliminateVar ==
    /\ pc = "ve"
    /\ \E v \in Range(Nodes(env)) \ Range(order) :
          LET r == eliminate_var(env.domains, run.heap, run.proj_factors, v)
          IN /\ run' = [run EXCEPT !.heap = r.heap, !.proj_factors = r.factors]
             /\ order' = Append(order, v)
             /\ last' = [op |-> "eliminate_var", var |-> v, before |-> run.proj_factors,
                         fac |-> 0, asst |-> EmptyAsst, val |-> None]
    /\ UNCHANGED <<env, pc, pos, actState, actResult, table, clue, expert>>

\* fac.get_value(assignment) for a factor of the list
GetValue ==
    /\ pc = "ve"
    /\ pos < MaxQueries
    /\ \E i \in 1..Len(run.proj_factors) :
          \E asst \in Assignments(env.domains, run.heap[run.proj_factors[i]].vars) :
              LET r == get_value(env.domains, run.heap, run.proj_factors[i], asst)
              IN /\ run' = [run EXCEPT !.heap = r.heap]
                 /\ last' = [op |-> "get_value", var |-> "", before |-> run.proj_factors,
                             fac |-> run.proj_factors[i], asst |-> asst, val |-> r.val]
    /\ pos' = pos + 1
    /\ UNCHANGED <<env, pc, order, actState, actResult, table, clue, expert>>

NextVE == EliminateVar \/ GetValue

SpecVE == InitVE /\ [][NextVE]_vars

(***************************************************************************)
(* StateTable.  A table is a record: nodes (list(domain.keys())), domain,  *)
(* size, values (one cell per index).  A cell holds an immutable value,    *)
(* <<"val", v>>, or a reference to a list object, <<"ref", k>>, the k-th   *)
(* object of objs; two cells with the same reference hold the same object. *)
(***************************************************************************)
\* the longest domain of a table's node, and the calls of add_to_table made
MaxDom == 2
MaxAdds == 1

TableValues == {"a", "b"}
TableNodes == {<<"C0">>, <<"C0", "A0">>}

\* the lists of at most n values
Lists(n) == UNION {[1..k -> TableValues] : k \in 1..n}

\* StateTable.__init__: size *= len(domain[nodes[i]]) from the last node to
\* the first
RECURSIVE StateTableSize(_, _)
StateTableSize(domain, nodes) ==
    IF nodes = <<>> THEN 1
    ELSE Len(domain[Head(nodes)]) * StateTableSize(domain, Tail(nodes))

\* StateTable.__init__: offsets[nodes[i]] = the size reached so far
offsets(domain, nodes, i) == StateTableSize(domain, SubSeq(nodes, i + 1, Len(nodes)))

\* StateTable.__init__: every cell is filled with default_value itself
StateTable(nodes, domain, default_value, objs) ==
    [built |-> TRUE, nodes |-> nodes, domain |-> domain,
     size |-> StateTableSize(domain, nodes),
     values |-> [i \in 1..StateTableSize(domain, nodes) |-> default_value],
     objs |-> objs, adds |-> 0]

\* list.index(x): the first position of x (0-based)
list_index(list, x) == IndexOf(list, x) - 1

RECURSIVE StateTableIndexSum(_, _, _)
StateTableIndexSum(t, assignment, i) ==
    IF i > Len(t.nodes) THEN 0
    ELSE list_index(t.domain[t.nodes[i]], assignment[t.nodes[i]])
            * offsets(t.domain, t.nodes, i)
         + StateTableIndexSum(t, assignment, i + 1)

\* StateTable.assignment_to_index (0-based)
StateTable_assignment_to_index(t, assignment) == StateTableIndexSum(t, assignment, 1)

\* StateTable.index_to_assignment
StateTable_index_to_assignment(t, index) ==
    LET digits == IndexDigits(t.domain, t.nodes, index, Len(t.nodes))
    IN [n \in Range(t.nodes) |-> digits[IndexOf(t.nodes, n)]]

\* StateTable.get_value: the cell itself (a reference is not copied)
StateTable_get_value(t, assignment) ==
    t.values[StateTable_assignment_to_index(t, assignment) + 1]

\* a table whose add_to_table writes the value into every cell
add_to_table_every_cell(t, state, value) ==
    [t EXCEPT !.values = [i \in DOMAIN t.values |-> value]]

\* StateTable.add_to_table
add_to_table(t, state, value) ==
    [t EXCEPT !.values[StateTable_assignment_to_index(t, state) + 1] = value]

\* what a cell shows to a reader: the value, or the content of the object
Shown(t, cell) == IF cell[1] = "ref" THEN t.objs[cell[2]] ELSE cell[2]

\* list.append on the object read from a cell: the object changes in place
list_append(t, cell, x) == [t EXCEPT !.objs[cell[2]] = Append(@, x)]

\* the full assignments of a table
TableAssignments(t) ==
    {a \in [Range(t.nodes) -> TableValues] : \A n \in Range(t.nodes) : a[n] \in Range(t.domain[n])}

\* a table is built from a name-to-domain mapping alone
NoDiagram == [chance |-> <<>>, decision |-> <<>>]

InitTable ==
    /\ env = NoDiagram
    /\ pc = "table"
    /\ order = <<>>
    /\ pos = 0
    /\ run = NoRun
    /\ actState = EmptyAsst
    /\ actResult = NoAct
    /\ last = NoCall
    /\ table = NoTable
    /\ clue = NoAgent
    /\ expert = NoExpert

\* StateTable(domain) and StateTable(domain, default_value=[])
NewStateTable ==
    /\ pc = "table"
    /\ ~table.built
    /\ \E nodes \in TableNodes : \E domain \in [Range(nodes) -> Lists(MaxDom)] :
          \/ table' = StateTable(nodes, domain, <<"val", 0>>, <<>>)
          \/ table' = StateTable(nodes, domain, <<"ref", 1>>, <<<<>>>>)
    /\ last' = [op |-> "StateTable"]
    /\ UNCHANGED <<env, pc, order, pos, run, actState, actResult, clue, expert>>

\* a caller stores a value in a cell: a number, or as TSAgent.learn does, a
\* copy of the list read from the cell with the reward appended
AddToTable ==
    /\ pc = "table"
    /\ table.built
    /\ table.adds < MaxAdds
    /\ \E state \in TableAssignments(table) :
          LET cell == StateTable_get_value(table, state)
          IN /\ IF cell[1] = "ref"
                THEN LET rewards == Append(table.objs[cell[2]], 1)
                         stored == [table EXCEPT !.objs = Append(@, rewards), !.adds = @ + 1]
                     IN table' = add_to_table(stored, state, <<"ref", Len(stored.objs)>>)
                ELSE table' = add_to_table([table EXCEPT !.adds = @ + 1], state,
                                           <<"val", cell[2] + 1>>)
             /\ last' = [op |-> "add_to_table", asst |-> state]
    /\ UNCHANGED <<env, pc, order, pos, run, actState, actResult, clue, expert>>

\* get_value(assignment)
Lookup ==
    /\ pc = "table"
    /\ table.built
    /\ \E assignment \in TableAssignments(table) :
          last' = [op |-> "get_value", asst |-> assignment,
                   val |-> StateTable_get_value(table, assignment)]
    /\ UNCHANGED <<env, pc, order, pos, run, actState, actResult, table, clue, expert>>

NextTable == NewStateTable \/ AddToTable \/ Lookup

SpecTable == InitTable /\ [][NextTable]_vars

(***************************************************************************)
(* Legal orders.                                                           *)
(***************************************************************************)
Position(ord, v) == IndexOf(ord, v)

\* every decision variable of the order precedes all of its parents
DecisionsBeforeParents(e, ord) ==
    \A d \in Range(e.decision) \cap Range(ord) :
        \A q \in e.dparents[d] \cap Range(ord) : Position(ord, d) < Position(ord, q)

\* a chance variable that is a parent of no decision still to be eliminated
\* is eliminated before that decision
ChanceBeforeDecisions(e, ord) ==
    \A d \in Range(e.decision) \cap Range(ord) :
        \A c \in Range(e.chance) \cap Range(ord) :
            Position(ord, c) > Position(ord, d)
                => \E d2 \in Range(e.decision) \cap Range(ord) :
                       Position(ord, d2) >= Position(ord, d) /\ c \in e.dparents[d2]

ConsistentWithInformationSets(e, ord) ==
    DecisionsBeforeParents(e, ord) /\ ChanceBeforeDecisions(e, ord)

\* the data-model invariant: some order of all the variables is consistent
\* with the information sets and is accepted by optimize
LegalOrderExists(e) ==
    \E p \in Perms(Range(Nodes(e))) :
        ConsistentWithInformationSets(e, p) /\ optimize(e, p).status = "returned"

Constructed == pc \in {"ready", "failed"}
Acted == pc = "ready" /\ actResult.status # "none"

(***************************************************************************)
(* C1.  For every full state s of the diagram, the oracle's act(s) returns  *)
(* a joint action that gives every decision variable a value and whose     *)
(* expected utility in s is at least that of every joint action.           *)
(***************************************************************************)
ActionOf(result) == [d \in DOMAIN result.action |-> result.action[d][1]]

ActIsOptimal ==
    /\ actResult.status = "returned"
    /\ DOMAIN actResult.action = Range(env.decision)
    /\ \A d \in Range(env.decision) : actResult.action[d] # None
    /\ \A a \in JointActions(env) :
          RLeq(expected_utility(env, actState, a),
               expected_utility(env, actState, ActionOf(actResult)))

C1_OracleActsOptimally == Acted => ActIsOptimal

(***************************************************************************)
(* C2.  optimize never returns a value and a policy for an order that      *)
(* eliminates a parent of a decision variable before that variable: it     *)
(* fails with the illegal-order assertion.                                 *)
(***************************************************************************)
ParentEliminatedFirst(e, ord) ==
    \E d \in Range(e.decision) : \E q \in e.dparents[d] :
        Position(ord, q) < Position(ord, d)

C2_IllegalOrderRejected ==
    (Constructed /\ ParentEliminatedFirst(env, order)) => run.status # "returned"

(***************************************************************************)
(* C3.  On a diagram that has a legal order, getEliminationOrder returns   *)
(* an order consistent with the information sets (decisions before their   *)
(* parents, chance variables no decision still needs before the decision)  *)
(* and optimize does not fail the illegal-order assertion on it.           *)
(***************************************************************************)
C3_OrderIsLegal ==
    (Constructed /\ RewardInGraph(env) /\ LegalOrderExists(env))
        => (ConsistentWithInformationSets(env, order) /\ run.status # IllegalOrderError)

(***************************************************************************)
(* C4.  The order getEliminationOrder returns holds exactly the variables  *)
(* that are ancestors of the reward node.                                  *)
(***************************************************************************)
C4_OnlyRewardAncestors ==
    (pc # "start" /\ RewardInGraph(env)) => Range(order) = reward_ancestors(env)

(***************************************************************************)
(* C5.  Dropping the non-ancestors from the order does not change what     *)
(* optimize produces: when optimize succeeds on the order as it was        *)
(* before dropping, it succeeds on the returned order with the same value  *)
(* and the same decision rules.                                            *)
(***************************************************************************)
DecisionRules(r) ==
    [i \in 1..Len(r.policy) |->
        <<r.heap[r.policy[i]].var, r.heap[r.policy[i]].vars, r.heap[r.policy[i]].values>>]

C5_PruningChangesNothing ==
    (Constructed /\ RewardInGraph(env))
        => LET unpruned == optimize(env, UnprunedOrder(env))
           IN unpruned.status = "returned"
                => /\ run.status = "returned"
                   /\ run.value = unpruned.value
                   /\ DecisionRules(run) = DecisionRules(unpruned)

(***************************************************************************)
(* C6.  For a legal order of all the variables, after the loop of optimize *)
(* exactly one factor remains and its scope is empty.                      *)
(***************************************************************************)
C6_OneFactorRemains ==
    (Processed /\ ConsistentWithInformationSets(env, order))
        => (Len(run.proj_factors) = 1 /\ run.heap[run.proj_factors[1]].vars = <<>>)


(***************************************************************************)
(* C7.  Each cell of a memoized sum-factor or max-factor is computed at    *)
(* most once, whatever its value: a later get_value for the same           *)
(* assignment returns the cached value and does not evaluate the           *)
(* underlying factors again.                                               *)
(***************************************************************************)
C7_CellComputedOnce ==
    \A id \in 1..Len(run.heap) :
        \A i \in 1..Len(run.heap[id].computes) : run.heap[id].computes[i] <= 1

(***************************************************************************)
(* C8.  eliminate_var(factors, v) returns the list unchanged when no       *)
(* factor mentions v; otherwise it returns the factors not mentioning v    *)
(* followed by one new factor, whose scope is the other variables of the   *)
(* mentioning factors and whose value at every assignment is the sum over  *)
(* the domain of v of the product of the mentioning factors' values at the *)
(* assignment extended with the value of v; no factor of the result        *)
(* mentions v.                                                             *)
(***************************************************************************)
\* the value a factor stands for, computed from the tables without any cache
RECURSIVE Denotes(_, _, _, _)
RECURSIVE Product(_, _, _, _)
RECURSIVE SumOver(_, _, _, _, _)
Product(dom, heap, facs, asst) ==
    IF facs = <<>> THEN ROne
    ELSE RMul(Denotes(dom, heap, Head(facs), asst), Product(dom, heap, Tail(facs), asst))
SumOver(dom, heap, facs, var, asst) ==
    LET Sum[k \in 0..Len(dom[var])] ==
            IF k = 0 THEN RZero
            ELSE RAdd(Sum[k - 1], Product(dom, heap, facs, Put(asst, var, dom[var][k])))
    IN Sum[Len(dom[var])]
Denotes(dom, heap, id, asst) ==
    IF heap[id].kind = "Factor_sum"
    THEN SumOver(dom, heap, heap[id].facs, heap[id].var, asst)
    ELSE heap[id].values[assignment_to_index(dom, heap[id].vars, asst) + 1][1]

Mentioning(heap, factors, var) == {f \in Range(factors) : var \in Range(heap[f].vars)}

EliminateVarPost ==
    LET before == last.before
        after == run.proj_factors
        v == last.var
        mention == Mentioning(run.heap, before, v)
    IN IF mention = {}
       THEN after = before
       ELSE LET new == after[Len(after)]
                rest == SubSeq(after, 1, Len(after) - 1)
            IN /\ rest = SelectSeq(before, LAMBDA f : f \notin mention)
               /\ new \notin Range(before)
               /\ Range(run.heap[new].vars)
                     = UNION {Range(run.heap[f].vars) : f \in mention} \ {v}
               /\ \A asst \in Assignments(env.domains, run.heap[new].vars) :
                     get_value(env.domains, run.heap, new, asst).val
                        = Some(SumOver(env.domains, run.heap,
                                       SelectSeq(before, LAMBDA f : f \in mention), v, asst))
               /\ \A f \in Range(after) : v \notin Range(run.heap[f].vars)

C8_EliminateVar == last.op = "eliminate_var" => EliminateVarPost

\* a variable two factors mention has been eliminated after another one, and
\* the new factor has a cell that is not zero
C8_Witness ==
    /\ last.op = "eliminate_var"
    /\ Len(order) = 2
    /\ Cardinality(Mentioning(run.heap, last.before, last.var)) = 2
    /\ \E f \in Mentioning(run.heap, last.before, last.var) : run.heap[f].kind = "Factor_sum"
    /\ EliminateVarPost
    /\ \E asst \in Assignments(env.domains, run.heap[run.proj_factors[Len(run.proj_factors)]].vars) :
          get_value(env.domains, run.heap, run.proj_factors[Len(run.proj_factors)], asst).val
             \notin {Some(RZero), Some(ROne)}


(***************************************************************************)
(* C9.  For a Factor over a list of variables and a StateTable over the    *)
(* same names and domains, the domains holding distinct values: the size   *)
(* is the product of the domain sizes, assignment_to_index undoes          *)
(* index_to_assignment on every index below the size, index_to_assignment  *)
(* undoes assignment_to_index on every full assignment, and the variable   *)
(* listed first is the most significant.                                   *)
(***************************************************************************)
Distinct(list) == \A i, j \in 1..Len(list) : list[i] = list[j] => i = j
DistinctDomains(t) == \A n \in Range(t.nodes) : Distinct(t.domain[n])

ProductOfSizes(t) ==
    LET Prod[k \in 0..Len(t.nodes)] ==
            IF k = 0 THEN 1 ELSE Prod[k - 1] * Cardinality(Range(t.domain[t.nodes[k]]))
    IN Prod[Len(t.nodes)]

\* a comes before b in the order that reads the first-listed node first
LexLess(t, a, b) ==
    \E k \in 1..Len(t.nodes) :
        /\ \A l \in 1..(k - 1) : a[t.nodes[l]] = b[t.nodes[l]]
        /\ IndexOf(t.domain[t.nodes[k]], a[t.nodes[k]])
              < IndexOf(t.domain[t.nodes[k]], b[t.nodes[k]])

IndexBijection(t) ==
    /\ t.size = ProductOfSizes(t)
    /\ FactorSize(t.domain, t.nodes) = ProductOfSizes(t)
    /\ \A i \in 0..(t.size - 1) :
          /\ StateTable_assignment_to_index(t, StateTable_index_to_assignment(t, i)) = i
          /\ assignment_to_index(t.domain, t.nodes, index_to_assignment(t.domain, t.nodes, i)) = i
    /\ \A a \in TableAssignments(t) :
          /\ StateTable_index_to_assignment(t, StateTable_assignment_to_index(t, a)) = a
          /\ index_to_assignment(t.domain, t.nodes, assignment_to_index(t.domain, t.nodes, a)) = a
    /\ \A a, b \in TableAssignments(t) :
          LexLess(t, a, b)
             => /\ StateTable_assignment_to_index(t, a) < StateTable_assignment_to_index(t, b)
                /\ assignment_to_index(t.domain, t.nodes, a) < assignment_to_index(t.domain, t.nodes, b)

C9_IndexBijection == (table.built /\ DistinctDomains(table)) => IndexBijection(table)

\* a table over two nodes with two values each has been built and read at its
\* last index
C9_Witness ==
    /\ table.built
    /\ DistinctDomains(table)
    /\ Len(table.nodes) = 2
    /\ \A n \in Range(table.nodes) : Len(table.domain[n]) = 2
    /\ last.op = "get_value"
    /\ StateTable_assignment_to_index(table, last.asst) = table.size - 1
    /\ IndexBijection(table)

(***************************************************************************)
(* C10.  In a StateTable built with a list as its default value every cell *)
(* holds a list of its own: appending in place to the list read from one   *)
(* cell changes what no other cell shows.                                  *)
(***************************************************************************)
C10_CellsIndependent ==
    table.built
        => \A i, j \in 1..table.size :
              (i # j /\ table.values[i][1] = "ref")
                 => Shown(list_append(table, table.values[i], 1), table.values[j])
                       = Shown(table, table.values[j])


(***************************************************************************)
(* C11.  On a diagram with one decision variable D whose utility factor    *)
(* mentions D and, besides D, only parents of D, optimize run on a legal   *)
(* order returns one decision rule: for each assignment of the rule's      *)
(* scope it selects the first value of D, in domain order, at which the    *)
(* utility is maximal; when the utility mentions D alone (no chance        *)
(* uncertainty) the value returned is that maximal utility.                *)
(***************************************************************************)
UtilityAt(e, asst) ==
    e.utility[assignment_to_index(e.domains, e.reward_parents, asst) + 1]

\* d is the first value of D, in domain order, of maximal utility at asst
FirstMaximizer(e, D, asst, d) ==
    LET dom == e.domains[D]
        k == IndexOf(dom, d)
    IN /\ \A j \in 1..Len(dom) : RLeq(UtilityAt(e, Put(asst, D, dom[j])), UtilityAt(e, Put(asst, D, d)))
       /\ \A j \in 1..(k - 1) : RLess(UtilityAt(e, Put(asst, D, dom[j])), UtilityAt(e, Put(asst, D, d)))

OneDecisionCase ==
    /\ Constructed
    /\ Len(env.decision) = 1
    /\ Contains(env.reward_parents, env.decision[1])
    /\ Range(env.reward_parents) \subseteq all_vars(env, env.decision[1])
    /\ ConsistentWithInformationSets(env, order)

MaximizesUtility ==
    LET D == env.decision[1]
        rule == run.heap[run.policy[1]]
    IN /\ run.status = "returned"
       /\ Len(run.policy) = 1
       /\ rule.var = D
       /\ Range(rule.vars) = Range(env.reward_parents) \ {D}
       /\ \A asst \in Assignments(env.domains, rule.vars) :
             LET cell == rule.values[assignment_to_index(env.domains, rule.vars, asst) + 1]
             IN cell # None /\ FirstMaximizer(env, D, asst, cell[1])
       /\ env.reward_parents = <<D>>
             => \E d \in Range(env.domains[D]) :
                   /\ FirstMaximizer(env, D, EmptyAsst, d)
                   /\ run.value = Some(UtilityAt(env, Put(EmptyAsst, D, d)))

C11_SingleDecision == OneDecisionCase => MaximizesUtility

\* no chance variable, a tie between the two values of D: the first is chosen
C11_Witness ==
    /\ OneDecisionCase
    /\ env.chance = <<>>
    /\ env.utility = <<ROne, ROne>>
    /\ MaximizesUtility
    /\ run.heap[run.policy[1]].values = <<Some(FALSE)>>


(***************************************************************************)
(* C12.  On the diagram with one boolean chance variable C, one boolean    *)
(* decision variable D with parent C and reward +1 if D = C, else -1, the  *)
(* oracle is built, its policy is D = C for both values of C, and optimize *)
(* returns the expected utility 1.                                         *)
(***************************************************************************)
MatchingDiagram ==
    /\ Len(env.chance) = 1
    /\ Len(env.decision) = 1
    /\ env.dparents[env.decision[1]] = {env.chance[1]}
    /\ Range(env.reward_parents) = {env.chance[1], env.decision[1]}
    /\ \A c, d \in Range(Boolean) :
          UtilityAt(env, Put(Put(EmptyAsst, env.chance[1], c), env.decision[1], d))
             = IF c = d THEN ROne ELSE Rat(-1)

PolicyCopiesState ==
    LET C == env.chance[1]
        rule == run.heap[run.policy[1]]
    IN /\ pc = "ready"
       /\ run.value = Some(ROne)
       /\ Len(run.policy) = 1
       /\ rule.var = env.decision[1]
       /\ rule.vars = <<C>>
       /\ \A c \in Range(Boolean) :
             /\ rule.values[assignment_to_index(env.domains, rule.vars, Put(EmptyAsst, C, c)) + 1]
                   = Some(c)
             /\ act(env, run.heap, run.policy, Put(EmptyAsst, C, c)).action
                   = Put(EmptyAsst, env.decision[1], Some(c))

C12_MatchingExample == (Constructed /\ MatchingDiagram) => PolicyCopiesState

\* the oracle of the example has been asked for C = TRUE and answered D = TRUE
C12_Witness ==
    /\ MatchingDiagram
    /\ env.cpt[env.chance[1]] = <<RNorm(1, 2), RNorm(1, 2)>>
    /\ PolicyCopiesState
    /\ Acted
    /\ actState = Put(EmptyAsst, env.chance[1], TRUE)
    /\ actResult.action = Put(EmptyAsst, env.decision[1], Some(TRUE))

(***************************************************************************)
(* The advice-trust agent: ClueAgent around an action-value learner, run   *)
(* trial by trial as Experiment.run_panel does (reset, then act, step,     *)
(* advise, learn).                                                         *)
(***************************************************************************)
RSub(a, b) == RAdd(a, RMul(Rat(-1), b))
\* a / b for b > 0
RDiv(a, b) == RNorm(a[1] * b[2], a[2] * b[1])
RMin(a, b) == IF RLeq(a, b) THEN a ELSE b
RMax(a, b) == IF RLeq(a, b) THEN b ELSE a

\* dict.update / the copy-then-assign loops: g's entries over f's
Update(f, g) ==
    [x \in DOMAIN f \cup DOMAIN g |-> IF x \in DOMAIN g THEN g[x] ELSE f[x]]

\* Utility.__init__ with a number Q0 and alpha = None (count based)
Utility(domains, nodes, Q0) ==
    [nodes |-> nodes, domain |-> domains,
     values |-> [i \in 1..StateTableSize(domains, nodes) |-> Q0],
     counts |-> [i \in 1..StateTableSize(domains, nodes) |-> 0]]

\* Utility.assignment_to_index (0-based; keys outside nodes are ignored)
Utility_assignment_to_index(u, assignment) == StateTableIndexSum(u, assignment, 1)

\* Utility.get_value
Utility_get_value(u, assignment) ==
    u.values[Utility_assignment_to_index(u, assignment) + 1]

\* Utility.update: the running mean of the rewards seen in the cell
Utility_update(u, trial, reward) ==
    LET i == Utility_assignment_to_index(u, trial) + 1
        alpha == RNorm(1, u.counts[i] + 1)
    IN [u EXCEPT !.counts[i] = @ + 1,
                 !.values[i] = RAdd(@, RMul(alpha, RSub(reward, @)))]

\* |A|: InfluenceDiagram.size
size_A(e) == StateTableSize(e.domains, e.decision)

\* list(product(*action_space.values()))[i - 1]: the first key varies slowest
combination(e, i) ==
    StateTable_index_to_assignment(
        [nodes |-> e.decision, domain |-> e.domains], i - 1)

combinations(e) == [i \in 1..size_A(e) |-> combination(e, i)]

\* score_state of the wrapped agent: the value of every action in the state
RECURSIVE ScoreLoop(_, _, _, _)
ScoreLoop(agent, e, state, i) ==
    IF i > size_A(e) THEN <<>>
    ELSE <<Utility_get_value(agent.utility, Update(state, combination(e, i)))>>
         \o ScoreLoop(agent, e, state, i + 1)

score_state(agent, e, state) == ScoreLoop(agent, e, state, 1)

\* max(list)
RECURSIVE MaxFrom(_, _)
MaxFrom(s, i) ==
    IF i = Len(s) THEN s[i] ELSE RMax(s[i], MaxFrom(s, i + 1))

MaxOf(s) == MaxFrom(s, 1)

\* np.argmax: the first index of the maximum (1-based here)
RECURSIVE ArgmaxLoop(_, _, _)
ArgmaxLoop(s, i, best) ==
    IF i > Len(s) THEN best
    ELSE IF RLess(s[best], s[i]) THEN ArgmaxLoop(s, i + 1, i)
    ELSE ArgmaxLoop(s, i + 1, best)

argmax(s) == ArgmaxLoop(s, 2, 1)

\* exploit of the wrapped agent, restricted to the action variables as its
\* act does
exploit(agent, e, state) == combination(e, argmax(score_state(agent, e, state)))

\* act(state, explore=False) of the default wrapped agent: its greedy action
BaselineAgent_act(agent, e, state) == exploit(agent, e, state)

\* learn of the wrapped agent
agent_learn(agent, state, actions, reward) ==
    [agent EXCEPT !.trial_count = @ + 1,
                  !.utility = Utility_update(@, Update(state, actions), reward)]

\* reset of the wrapped agent (Q0 = 0)
agent_reset(e) ==
    [trial_count |-> 0,
     utility |-> Utility(e.domains, e.chance \o e.decision, RZero)]

\* the experts of the panel, in the order of Panel.experts
Experts == <<"e1", "e2">>

\* ClueAgent.__init__: the threshold of the agent
threshold(e, cfg) ==
    IF cfg.threshold = None THEN RMin(RNorm(2, size_A(e)), RNorm(1, 2))
    ELSE cfg.threshold[1]

\* alpha / (alpha + beta), floored at zero
rho_of(beta_parameters) ==
    RMax(RNorm(beta_parameters[1], beta_parameters[1] + beta_parameters[2]), RZero)

\* ClueAgent.reset: what the agent holds for one expert (the entries of
\* state_table_dict, beta_parameters, optimal_dict, suboptimal_dict, rho,
\* recent_rho and evals under the expert's name); outcomes records every
\* evaluation of the expert since the reset, and told, for every state, the
\* trial and the content of the expert's latest disclosure in that state
reset_expert(e, cfg) ==
    [state_table |-> StateTable(e.chance, e.domains, None, <<>>),
     beta_parameters |-> cfg.initial_estimate,
     optimal |-> cfg.initial_estimate[1],
     suboptimal |-> cfg.initial_estimate[2],
     rho |-> rho_of(cfg.initial_estimate),
     recent_rho |-> rho_of(cfg.initial_estimate),
     evals |-> <<>>,
     outcomes |-> <<>>,
     told |-> [i \in 1..StateTableSize(e.domains, e.chance) |-> None]]

\* ClueAgent.reset
ClueAgent_reset(e, cfg) ==
    [built |-> TRUE, cfg |-> cfg,
     threshold |-> threshold(e, cfg),
     trial_count |-> 0,
     agent |-> agent_reset(e),
     expert |-> [x \in Range(Experts) |-> reset_expert(e, cfg)]]

\* a reset that keeps what the experts advised in the run before
reset_run_keeping_advice(c, e) ==
    [c EXCEPT !.trial_count = 0,
              !.agent = agent_reset(e),
              !.expert = [x \in Range(Experts) |->
                             [reset_expert(e, c.cfg) EXCEPT
                                 !.state_table = c.expert[x].state_table]]]

\* ClueAgent.reset on an agent that has run: the fields it assigns
reset_run(c, e) ==
    [c EXCEPT !.trial_count = 0,
              !.agent = agent_reset(e),
              !.expert = [x \in Range(Experts) |-> reset_expert(e, c.cfg)]]

\* the advice remembered for a state, or None
remembered(c, x, state) == StateTable_get_value(c.expert[x].state_table, state)

\* ClueAgent.aggregate_advice: the experts with advice for the state
aggregate_advice(c, state) ==
    LET advised == {x \in Range(Experts) : remembered(c, x, state) # None}
    IN [x \in advised |-> remembered(c, x, state)[1]]

\* a slice that drops nothing
PySliceAll(s, k) == s

\* list[k:] of Python for any integer k
PySliceFrom(s, k) ==
    LET start == IF k < 0 THEN (IF Len(s) + k < 0 THEN 0 ELSE Len(s) + k)
                 ELSE (IF k > Len(s) THEN Len(s) ELSE k)
    IN SubSeq(s, start + 1, Len(s))

RECURSIVE SumSeq(_)
SumSeq(s) == IF s = <<>> THEN 0 ELSE Head(s) + SumSeq(Tail(s))

\* an evaluation that asks the advice to score strictly above the best action
advice_beats_best(agent, e, state, actions, advice) ==
    LET best_val == MaxOf(score_state(agent, e, state))
        advice_state == Update(state, [n \in DOMAIN actions |-> advice[n]])
        advice_val == Utility_get_value(agent.utility, advice_state)
    IN RLess(best_val, advice_val)

\* ClueAgent.learn: whether the advice scores as well as the best action
advice_is_best(agent, e, state, actions, advice) ==
    LET best_val == MaxOf(score_state(agent, e, state))
        advice_state == Update(state, [n \in DOMAIN actions |-> advice[n]])
        advice_val == Utility_get_value(agent.utility, advice_state)
    IN RLeq(best_val, advice_val)

\* a learn that only ever evaluates the advice of this trial
latest_advice_this_trial(cfg, state_table, state, advice_x) == advice_x

\* ClueAgent.learn: the advice evaluated for an expert this trial, or None
latest_advice(cfg, state_table, state, advice_x) ==
    IF cfg.regular_update THEN StateTable_get_value(state_table, state)
    ELSE advice_x

\* ClueAgent.learn: the counts, the window and the recency estimate after
\* an evaluation whose outcome is bit
evaluated(cfg, ex, state_table, bit) ==
    LET W == cfg.sliding_window
        appended == Append(ex.evals, bit)
        evals == IF Len(appended) > W[1] THEN PySliceFrom(appended, -W[1])
                 ELSE appended
        optimal == IF W # None THEN SumSeq(evals) ELSE ex.optimal + bit
        suboptimal == IF W # None THEN Len(evals) - SumSeq(evals)
                      ELSE ex.suboptimal + (1 - bit)
    IN [state_table |-> state_table,
        beta_parameters |-> <<optimal, suboptimal>>,
        optimal |-> optimal,
        suboptimal |-> suboptimal,
        rho |-> ex.rho,
        recent_rho |->
            IF cfg.recency = None THEN ex.recent_rho
            ELSE RAdd(RMul(RSub(ROne, cfg.recency[1]), ex.recent_rho),
                      RMul(Rat(bit), cfg.recency[1])),
        evals |-> IF W # None THEN evals ELSE ex.evals,
        outcomes |-> Append(ex.outcomes, bit),
        told |-> ex.told]

\* a learn that keeps the first advice an expert gave for a state
learn_expert_keeping_first(cfg, ex, agent, e, state, actions, advice_x) ==
    LET state_table == IF advice_x # None
                          /\ StateTable_get_value(ex.state_table, state) = None
                       THEN add_to_table(ex.state_table, state, advice_x)
                       ELSE ex.state_table
        latest == latest_advice(cfg, state_table, state, advice_x)
    IN IF latest = None THEN [ex EXCEPT !.state_table = state_table]
       ELSE evaluated(cfg, ex, state_table,
                      IF advice_is_best(agent, e, state, actions, latest[1])
                      THEN 1 ELSE 0)

\* ClueAgent.learn: the body of the loop for one expert, after agent.learn
learn_expert(cfg, ex, agent, e, state, actions, advice_x) ==
    LET state_table == IF advice_x # None
                       THEN add_to_table(ex.state_table, state, advice_x)
                       ELSE ex.state_table
        latest == latest_advice(cfg, state_table, state, advice_x)
    IN IF latest = None THEN [ex EXCEPT !.state_table = state_table]
       ELSE evaluated(cfg, ex, state_table,
                      IF advice_is_best(agent, e, state, actions, latest[1])
                      THEN 1 ELSE 0)

\* the record of a disclosure made in a trial
tell(ex, trial, state, advice_x) ==
    IF advice_x = None THEN ex
    ELSE [ex EXCEPT !.told[StateTable_assignment_to_index(ex.state_table, state) + 1]
                        = Some(<<trial, advice_x[1]>>)]

\* ClueAgent.learn
learn(c, e, state, actions, reward, advice) ==
    LET agent == agent_learn(c.agent, state, actions, reward)
    IN [c EXCEPT !.trial_count = @ + 1,
                 !.agent = agent,
                 !.expert = [x \in Range(Experts) |->
                                tell(learn_expert(c.cfg, c.expert[x], agent, e,
                                                  state, actions, advice[x]),
                                     c.trial_count + 1, state, advice[x])]]

\* ClueAgent.act: epsilon of the trial (eps_start 1, eps_end 0, eps_fraction 0.8)
epsilon(c) ==
    LET epsilon_steps == RMul(RNorm(4, 5), Rat(c.cfg.trials))
        fraction == RMin(ROne, RDiv(Rat(c.trial_count), epsilon_steps))
    IN RAdd(ROne, RMul(fraction, RSub(RZero, ROne)))

\* ClueAgent.act: rho of every expert is recomputed before acting
update_rho(c) ==
    [c EXCEPT !.expert =
        [x \in Range(Experts) |->
            [c.expert[x] EXCEPT !.rho =
                IF c.cfg.recency # None THEN RMax(c.expert[x].recent_rho, RZero)
                ELSE rho_of(c.expert[x].beta_parameters)]]]

\* max(self.rho, key=self.rho.get): the first expert of the highest rho
RECURSIVE BestExpertLoop(_, _, _)
BestExpertLoop(c, i, best) ==
    IF i > Len(Experts) THEN Experts[best]
    ELSE IF RLess(c.expert[Experts[best]].rho, c.expert[Experts[i]].rho)
         THEN BestExpertLoop(c, i + 1, i)
    ELSE BestExpertLoop(c, i + 1, best)

best_expert(c) == BestExpertLoop(c, 2, 1)

\* ClueAgent.act: the likelihood of combination i under the advice
RECURSIVE LikelihoodLoop(_, _, _, _, _)
LikelihoodLoop(c, e, advice_dict, i, k) ==
    IF k > Len(Experts) THEN ROne
    ELSE LET x == Experts[k]
             rest == LikelihoodLoop(c, e, advice_dict, i, k + 1)
         IN IF x \notin DOMAIN advice_dict THEN rest
            ELSE IF advice_dict[x] = combination(e, i)
                 THEN RMul(c.expert[x].rho, rest)
                 ELSE RMul(RDiv(RSub(ROne, c.expert[x].rho), Rat(size_A(e) - 1)), rest)

RECURSIVE LikelihoodsFrom(_, _, _, _)
LikelihoodsFrom(c, e, advice_dict, i) ==
    IF i > size_A(e) THEN <<>>
    ELSE <<LikelihoodLoop(c, e, advice_dict, i, 1)>>
         \o LikelihoodsFrom(c, e, advice_dict, i + 1)

likelihoods(c, e, advice_dict) == LikelihoodsFrom(c, e, advice_dict, 1)

RECURSIVE RSum(_)
RSum(s) == IF s = <<>> THEN RZero ELSE RAdd(Head(s), RSum(Tail(s)))

\* a posterior that ignores the likelihoods: every action equally probable
probs_uniform(l) == [i \in 1..Len(l) |-> RNorm(1, Len(l))]

\* ClueAgent.act: the posterior of every action, given the likelihoods
RECURSIVE ProbsFrom(_, _, _)
ProbsFrom(l, total, i) ==
    IF i > Len(l) THEN <<>>
    ELSE <<RDiv(l[i], total)>> \o ProbsFrom(l, total, i + 1)

probs(l) == ProbsFrom(l, RSum(l), 1)

\* a fallback that always takes the first joint action
RandomActions_first(e) == {[path |-> "random", action |-> combination(e, 1)]}

\* the uniformly random action of the fallback: any joint action
RandomActions(e) ==
    {[path |-> "random", action |-> combination(e, i)] : i \in 1..size_A(e)}

\* an agent for which no posterior is too low
NeverBelowThreshold(p, t) == FALSE

\* whether the posterior is too low for the advice to be followed
BelowThreshold(p, t) == RLess(p, t)

\* ClueAgent.act, naive mode: trust the best expert with probability rho
NaiveResults(c, e, advice_dict) ==
    LET x == best_expert(c)
    IN (IF RLess(RZero, c.expert[x].rho)
        THEN (IF x \in DOMAIN advice_dict
              THEN {[path |-> "advice", action |-> advice_dict[x]]}
              ELSE {[path |-> "KeyError", action |-> EmptyAsst]})
        ELSE {})
       \cup (IF RLess(c.expert[x].rho, ROne) THEN RandomActions(e) ELSE {})

\* an agent that never finds the likelihoods to be all zero
likelihood_assumed(l) == FALSE

\* ClueAgent.act: np.sum(likelihoods)==0
no_likelihood(l) == RSum(l) = RZero

\* ClueAgent.act, Bayesian mode; dividing by a zero sum of likelihoods is
\* the outcome "ZeroDivision"
BayesResults(c, e, advice_dict) ==
    LET l == likelihoods(c, e, advice_dict)
        p == probs(l)
        best_index == argmax(p)
    IN IF no_likelihood(l) THEN RandomActions(e)
       ELSE IF RSum(l) = RZero
            THEN {[path |-> "ZeroDivision", action |-> EmptyAsst]}
       ELSE IF BelowThreshold(p[best_index], c.threshold) THEN RandomActions(e)
       ELSE (IF RLess(RZero, p[best_index])
             THEN {[path |-> "advice", action |-> combination(e, best_index)]}
             ELSE {})
            \cup (IF RLess(p[best_index], ROne) THEN RandomActions(e) ELSE {})

\* an act whose exploitation follows remembered advice when there is some
act_results_consulting(c, e, state, explore) ==
    LET advice_dict == aggregate_advice(c, state)
    IN {[path |-> "exploit",
         action |-> IF DOMAIN advice_dict = {}
                    THEN BaselineAgent_act(c.agent, e, state)
                    ELSE advice_dict[CHOOSE x \in DOMAIN advice_dict : TRUE]]}
       \cup (IF explore /\ RLess(RZero, epsilon(c)) THEN RandomActions(e) ELSE {})

\* ClueAgent.act after the update of rho: every outcome the draws allow
act_results(c, e, state, explore) ==
    LET advice_dict == aggregate_advice(c, state)
        may_exploit == ~explore \/ RLess(epsilon(c), ROne)
        may_explore == explore /\ RLess(RZero, epsilon(c))
    IN (IF may_exploit
        THEN {[path |-> "exploit", action |-> BaselineAgent_act(c.agent, e, state)]}
        ELSE {})
       \cup
       (IF ~may_explore THEN {}
        ELSE IF DOMAIN advice_dict = {} THEN RandomActions(e)
        ELSE IF c.cfg.no_bayes THEN NaiveResults(c, e, advice_dict)
        ELSE BayesResults(c, e, advice_dict))

(***************************************************************************)
(* SpecClue: the runs of Experiment.run_panel with a ClueAgent.  The       *)
(* environment has one Boolean state variable and two Boolean decisions;   *)
(* the state of each trial and the advice of Panel.advise are inputs.      *)
(***************************************************************************)
\* the reward is 1 when the first decision copies the state variable
ClueEnv ==
    [chance |-> <<"C0">>, decision |-> <<"A0", "A1">>,
     domains |-> [n \in {"C0", "A0", "A1"} |-> Boolean],
     reward_parents |-> <<"C0", "A0">>,
     utility |-> <<ROne, RZero, RZero, ROne>>]

\* no state variable and one decision, rewarded when it is TRUE
WindowEnv ==
    [chance |-> <<>>, decision |-> <<"A0">>,
     domains |-> [n \in {"A0"} |-> Boolean],
     reward_parents |-> <<"A0">>,
     utility |-> <<RZero, ROne>>]

\* the arguments of ClueAgent.__init__ that the runs vary
DefaultConfig ==
    [no_bayes |-> FALSE, regular_update |-> TRUE, recency |-> None,
     sliding_window |-> None, threshold |-> None,
     initial_estimate |-> <<1, 1>>, trials |-> 2]

ClueConfigs ==
    {DefaultConfig,
     [DefaultConfig EXCEPT !.no_bayes = TRUE],
     [DefaultConfig EXCEPT !.regular_update = FALSE],
     [DefaultConfig EXCEPT !.sliding_window = Some(1)],
     [DefaultConfig EXCEPT !.sliding_window = Some(1),
                           !.threshold = Some(RNorm(9, 10))]}

\* runs of three trials with a sliding window, without and with recency
WindowConfigs ==
    {[DefaultConfig EXCEPT !.sliding_window = Some(1), !.trials = 3],
     [DefaultConfig EXCEPT !.sliding_window = Some(2), !.trials = 3],
     [DefaultConfig EXCEPT !.sliding_window = Some(1), !.trials = 3,
                           !.recency = Some(RNorm(1, 2))]}

\* env.step: the utility of the state and the action
step(e, state, action) ==
    e.utility[assignment_to_index(e.domains, e.reward_parents,
                                  Update(state, action)) + 1]

\* what an expert can say in a trial: nothing, or one of these actions
AdvisedActions(e) == {combination(e, 1), combination(e, 2)}
Advice(e) == [Range(Experts) -> {None} \cup {Some(a) : a \in AdvisedActions(e)}]

InitClue ==
    /\ env = ClueEnv
    /\ pc = "clue_start"
    /\ order = <<>>
    /\ pos = 0
    /\ run = NoRun
    /\ actState = EmptyAsst
    /\ actResult = NoAct
    /\ last = NoCall
    /\ table = NoTable
    /\ clue = [built |-> FALSE, configs |-> ClueConfigs]
    /\ expert = NoExpert

\* agent = ClueAgent(env, trials, ...) and, at the start of every run,
\* agent.reset(panel)
ClueReset ==
    /\ \/ pc = "clue_start"
       \/ pc = "clue_act" /\ clue.trial_count = clue.cfg.trials
    /\ \/ /\ ~clue.built
          /\ \E cfg \in clue.configs : clue' = ClueAgent_reset(env, cfg)
       \/ /\ clue.built
          /\ clue' = reset_run(clue, env)
    /\ pc' = "clue_act"
    /\ last' = [op |-> "reset", before |-> clue]
    /\ UNCHANGED <<env, order, pos, run, actState, actResult, table, expert>>

\* state = env.reset(); action = agent.act(state)
ClueAct ==
    /\ pc = "clue_act"
    /\ clue.trial_count < clue.cfg.trials
    /\ \E state \in States(env), explore \in BOOLEAN :
         \E r \in act_results(update_rho(clue), env, state, explore) :
           /\ clue' = update_rho(clue)
           /\ last' = [op |-> "act", state |-> state, explore |-> explore,
                       path |-> r.path, action |-> r.action, before |-> clue]
           /\ pc' = IF r.path \in {"KeyError", "ZeroDivision"} THEN "clue_crashed"
                    ELSE "clue_learn"
    /\ UNCHANGED <<env, order, pos, run, actState, actResult, table, expert>>

\* reward = env.step(action); advice = panel.advise(...); agent.learn(...)
ClueLearn ==
    /\ pc = "clue_learn"
    /\ \E advice \in Advice(env) :
         /\ clue' = learn(clue, env, last.state, last.action,
                          step(env, last.state, last.action), advice)
         /\ last' = [op |-> "learn", state |-> last.state, action |-> last.action,
                     reward |-> step(env, last.state, last.action),
                     advice |-> advice, before |-> clue]
    /\ pc' = "clue_act"
    /\ UNCHANGED <<env, order, pos, run, actState, actResult, table, expert>>

NextClue == ClueReset \/ ClueAct \/ ClueLearn

SpecClue == InitClue /\ [][NextClue]_vars

(***************************************************************************)
(* SpecWindow: the same runs, three trials long, of the agents with a      *)
(* sliding window in the environment without state variables.              *)
(***************************************************************************)
InitWindow ==
    /\ env = WindowEnv
    /\ pc = "clue_start"
    /\ order = <<>>
    /\ pos = 0
    /\ run = NoRun
    /\ actState = EmptyAsst
    /\ actResult = NoAct
    /\ last = NoCall
    /\ table = NoTable
    /\ clue = [built |-> FALSE, configs |-> WindowConfigs]
    /\ expert = NoExpert

SpecWindow == InitWindow /\ [][NextClue]_vars

(***************************************************************************)
(* Claims about the advice-trust agent.                                    *)
(***************************************************************************)
Learned == pc = "clue_act" /\ last.op = "learn"
ActedOn == last.op = "act"

\* C13: ClueAgent remembers, per expert and per state, the most recent
\* advice that expert gave in that state: a learn stores the advice of each
\* expert that gave some into the cell of the trial's state, replaces what
\* was there, and leaves every other cell (other states, and the cells of
\* an expert that gave no advice) as it was; an act changes no cell and a
\* reset empties them all.
MemoryAfterLearn ==
    \A x \in Range(Experts) : \A s \in States(env) :
        remembered(clue, x, s) =
            IF s = last.state /\ last.advice[x] # None THEN last.advice[x]
            ELSE remembered(last.before, x, s)

MemoryKept ==
    \A x \in Range(Experts) : \A s \in States(env) :
        remembered(clue, x, s) = remembered(last.before, x, s)

MemoryEmpty ==
    \A x \in Range(Experts) : \A s \in States(env) : remembered(clue, x, s) = None

C13_AdviceMemory ==
    /\ last.op = "learn" => MemoryAfterLearn
    /\ last.op = "act" => MemoryKept
    /\ last.op = "reset" => MemoryEmpty

\* new advice of e1 replaces its older, different advice for the state while
\* the silent e2 keeps what it said before
C13_Witness ==
    /\ Learned
    /\ remembered(last.before, "e1", last.state) # None
    /\ last.advice["e1"] # None
    /\ last.advice["e1"] # remembered(last.before, "e1", last.state)
    /\ last.advice["e2"] = None
    /\ remembered(clue, "e2", last.state) # None
    /\ remembered(clue, "e1", last.state) = last.advice["e1"]

\* the advice a learn evaluates for expert x: with regular update what is
\* remembered for the state once this trial's advice is stored, otherwise
\* this trial's advice
AdviceEvaluated(x) ==
    IF clue.cfg.regular_update THEN remembered(clue, x, last.state)
    ELSE last.advice[x]

\* the wrapped agent values the state with the advised action at least as
\* much as the state with any joint action
AdvisedIsBest(x) ==
    \A a \in JointActions(env) :
        RLeq(Utility_get_value(clue.agent.utility, Update(last.state, a)),
             Utility_get_value(clue.agent.utility,
                               Update(last.state, AdviceEvaluated(x)[1])))

\* the evaluations of expert x made by the last learn
NewOutcomes(x) ==
    Len(clue.expert[x].outcomes) - Len(last.before.expert[x].outcomes)

Unweighted == clue.built /\ clue.cfg.sliding_window = None /\ clue.cfg.recency = None

CountsStep(x) ==
    LET ex == clue.expert[x]
        old == last.before.expert[x]
    IN /\ NewOutcomes(x) \in {0, 1}
       /\ NewOutcomes(x) = 0 =>
            ex.optimal = old.optimal /\ ex.suboptimal = old.suboptimal
       /\ NewOutcomes(x) = 1 =>
            IF AdvisedIsBest(x)
            THEN ex.optimal = old.optimal + 1 /\ ex.suboptimal = old.suboptimal
            ELSE ex.optimal = old.optimal /\ ex.suboptimal = old.suboptimal + 1

\* C14: without recency weighting and without a sliding window, a learn
\* changes the (optimal, suboptimal) pair of an expert by at most one unit:
\* an evaluation adds 1 to optimal when the advised action is valued at
\* least as much as the best joint action of the state and 1 to suboptimal
\* otherwise, and without an evaluation both stay; so optimal + suboptimal
\* is the prior total plus the number of evaluations since the reset.
C14_CountsByOne ==
    Unweighted =>
        \A x \in Range(Experts) :
            /\ last.op = "learn" => CountsStep(x)
            /\ clue.expert[x].optimal + clue.expert[x].suboptimal
                 = clue.cfg.initial_estimate[1] + clue.cfg.initial_estimate[2]
                   + Len(clue.expert[x].outcomes)
            /\ clue.expert[x].beta_parameters
                 = <<clue.expert[x].optimal, clue.expert[x].suboptimal>>

\* one learn counts a success for e1 and a failure for e2
C14_Witness ==
    /\ Unweighted
    /\ Learned
    /\ NewOutcomes("e1") = 1 /\ AdvisedIsBest("e1")
    /\ clue.expert["e1"].optimal = last.before.expert["e1"].optimal + 1
    /\ NewOutcomes("e2") = 1 /\ ~AdvisedIsBest("e2")
    /\ clue.expert["e2"].suboptimal = last.before.expert["e2"].suboptimal + 1

\* the last learn evaluated the advice of expert x
EvaluatedNow(x) ==
    /\ NewOutcomes(x) = 1
    /\ clue.cfg.sliding_window = None =>
         clue.expert[x].optimal + clue.expert[x].suboptimal
           = last.before.expert[x].optimal + last.before.expert[x].suboptimal + 1

CountsKept(x) ==
    /\ clue.expert[x].optimal = last.before.expert[x].optimal
    /\ clue.expert[x].suboptimal = last.before.expert[x].suboptimal
    /\ clue.expert[x].beta_parameters = last.before.expert[x].beta_parameters

\* C15: with regular update, a learn evaluates every expert whose memory
\* for the trial's state is non-empty once this trial's advice is stored,
\* even an expert that said nothing this trial; without regular update,
\* the counts of an expert that said nothing this trial stay as they were.
C15_RegularUpdate ==
    last.op = "learn" =>
        \A x \in Range(Experts) :
            /\ (clue.cfg.regular_update /\ remembered(clue, x, last.state) # None)
                 => EvaluatedNow(x)
            /\ (~clue.cfg.regular_update /\ last.advice[x] = None)
                 => CountsKept(x)

\* with regular update, the silent e1 is evaluated on what it said earlier
C15_Witness ==
    /\ Learned
    /\ clue.cfg.regular_update
    /\ last.advice["e1"] = None
    /\ remembered(last.before, "e1", last.state) # None
    /\ EvaluatedNow("e1")

\* the last W outcomes of a sequence of more than W outcomes
LastOutcomes(s, W) == SubSeq(s, Len(s) - W + 1, Len(s))

\* the fraction of successes among the last W outcomes
FractionOfLast(s, W) == RNorm(SumSeq(LastOutcomes(s, W)), W)

Windowed == clue.built /\ clue.cfg.sliding_window # None

\* what the claim says of expert x under a window of W outcomes: at most W
\* outcomes are kept, and once more than W evaluations were made the counts
\* are those of the last W outcomes and the rho that act computes is the
\* fraction of successes among them
WindowHolds(x, W) ==
    LET ex == clue.expert[x]
    IN /\ Len(ex.evals) <= W
       /\ Len(ex.outcomes) > W =>
            /\ ex.evals = LastOutcomes(ex.outcomes, W)
            /\ ex.beta_parameters
                 = <<SumSeq(LastOutcomes(ex.outcomes, W)),
                     W - SumSeq(LastOutcomes(ex.outcomes, W))>>
            /\ last.op = "act" => ex.rho = FractionOfLast(ex.outcomes, W)

\* C16 as stated: with sliding_window = W, after more than W evaluations
\* the reliability estimate of an expert is the fraction of successes among
\* its last W outcomes, and never more than W outcomes are kept.
C16_WindowAsStated ==
    Windowed =>
        \A x \in Range(Experts) : WindowHolds(x, clue.cfg.sliding_window[1])

\* C16, amended: the same when recency weighting is off; with recency
\* weighting the estimate act uses is the moving average recent_rho, which
\* depends on every outcome since the reset and on the prior.
C16_WindowWithoutRecency ==
    (Windowed /\ clue.cfg.recency = None) =>
        \A x \in Range(Experts) : WindowHolds(x, clue.cfg.sliding_window[1])

\* after a success and then a failure, a window of one outcome makes act
\* compute a rho of zero for e1
C16_Witness ==
    /\ Windowed /\ clue.cfg.recency = None
    /\ clue.cfg.sliding_window = Some(1)
    /\ last.op = "act"
    /\ clue.expert["e1"].outcomes = <<1, 0>>
    /\ clue.expert["e1"].evals = <<0>>
    /\ clue.expert["e1"].rho = RZero

\* the advice act finds for the state of the last act (act stores none)
AdviceAtAct == aggregate_advice(clue, last.state)

\* the posterior of every joint action at the last act, from the rho it
\* has just recomputed
PosteriorAtAct == probs(likelihoods(clue, env, AdviceAtAct))

\* act explored in Bayesian mode with advice of non-zero total likelihood
BayesExplored ==
    /\ last.op = "act"
    /\ ~clue.cfg.no_bayes
    /\ last.path # "exploit"
    /\ DOMAIN AdviceAtAct # {}
    /\ RSum(likelihoods(clue, env, AdviceAtAct)) # RZero

\* every posterior is below the threshold
AllBelowThreshold ==
    \A i \in 1..Len(PosteriorAtAct) : RLess(PosteriorAtAct[i], clue.threshold)

\* the action was adopted from the advice: it has a posterior no other
\* action exceeds, and that posterior reaches the threshold
AdoptedAboveThreshold ==
    \E i \in 1..Len(PosteriorAtAct) :
        /\ last.action = combination(env, i)
        /\ \A j \in 1..Len(PosteriorAtAct) : RLeq(PosteriorAtAct[j], PosteriorAtAct[i])
        /\ RLeq(clue.threshold, PosteriorAtAct[i])

NoLikelihood ==
    /\ last.op = "act"
    /\ ~clue.cfg.no_bayes
    /\ last.path # "exploit"
    /\ DOMAIN AdviceAtAct # {}
    /\ \A i \in 1..Len(likelihoods(clue, env, AdviceAtAct)) :
          likelihoods(clue, env, AdviceAtAct)[i] = RZero

\* C18: when every joint action has likelihood zero, act does not divide
\* by their sum and does not raise: the trial is one without trust and the
\* action is a uniformly random joint action.
C18_ZeroLikelihood ==
    NoLikelihood =>
        /\ last.path = "random"
        /\ last.action \in JointActions(env)
        /\ pc = "clue_learn"

\* e1 and e2, both of rho 1, remember different advice for the state
C18_Witness ==
    /\ NoLikelihood
    /\ clue.expert["e1"].rho = ROne
    /\ clue.expert["e2"].rho = ROne
    /\ AdviceAtAct["e1"] # AdviceAtAct["e2"]
    /\ last.path = "random"

\* act explored in naive mode with advice remembered for the state
NaiveExplored ==
    /\ last.op = "act"
    /\ clue.cfg.no_bayes
    /\ last.path # "exploit"
    /\ DOMAIN AdviceAtAct # {}

\* the experts no other expert exceeds in rho
HighestRho ==
    {x \in Range(Experts) :
        \A y \in Range(Experts) : RLeq(clue.expert[y].rho, clue.expert[x].rho)}

\* C19: in naive mode, when act explores and some expert has remembered
\* advice for the state, act returns without error either the remembered
\* advice of an expert of the highest rho or a uniformly random joint
\* action; it never looks up the advice of an expert that has none for the
\* state.
C19_NaiveReturns ==
    NaiveExplored =>
        /\ last.path \in {"advice", "random"}
        /\ last.action \in JointActions(env)
        /\ last.path = "advice" =>
              \E x \in HighestRho \cap DOMAIN AdviceAtAct :
                  last.action = AdviceAtAct[x]

\* the greedy action of the wrapped agent c.agent in state s: the first
\* joint action, in the order of the combinations, of the highest utility
IsGreedy(c, s, a) ==
    \E i \in 1..size_A(env) :
        /\ a = combination(env, i)
        /\ \A j \in 1..size_A(env) :
              RLeq(Utility_get_value(c.agent.utility, Update(s, combination(env, j))),
                   Utility_get_value(c.agent.utility, Update(s, a)))
        /\ \A j \in 1..(i - 1) :
              RLess(Utility_get_value(c.agent.utility, Update(s, combination(env, j))),
                    Utility_get_value(c.agent.utility, Update(s, a)))

\* what an agent may hold for an expert: nothing and the prior, or the
\* same advice for every state with counts that make rho 1 or 0
ExpertVariants(c) ==
    LET full(a, counts) ==
            [reset_expert(env, c.cfg) EXCEPT
                !.state_table =
                    [@ EXCEPT !.values = [i \in DOMAIN @ |-> Some(a)]],
                !.beta_parameters = counts,
                !.optimal = counts[1], !.suboptimal = counts[2],
                !.recent_rho = rho_of(counts)]
    IN {reset_expert(env, c.cfg)}
       \cup {full(a, counts) : a \in JointActions(env),
                               counts \in {<<3, 0>>, <<0, 3>>}}

\* the agents that differ from c only in advice memory and reliability
Variants(c) ==
    {[c EXCEPT !.expert = [x \in Range(Experts) |-> IF x = "e1" THEN v ELSE w]] :
        v \in ExpertVariants(c), w \in ExpertVariants(c)}

\* the actions act can return by exploiting, for agent c in the state and
\* with the explore argument of the last act
ExploitActions(c) ==
    {r.action : r \in {q \in act_results(update_rho(c), env, last.state, last.explore) :
                          q.path = "exploit"}}

SoleCertainAdviser(x) ==
    /\ last.op = "act"
    /\ ~clue.cfg.no_bayes
    /\ last.path # "exploit"
    /\ DOMAIN AdviceAtAct = {x}
    /\ clue.expert[x].rho = ROne

\* the posterior is 1 on action a and 0 on every other joint action
PosteriorIsCertainOf(a) ==
    /\ Len(PosteriorAtAct) = Cardinality(JointActions(env))
    /\ \A i \in 1..Len(PosteriorAtAct) :
          PosteriorAtAct[i] = IF combination(env, i) = a THEN ROne ELSE RZero

\* C21: when act explores with exactly one expert having remembered advice
\* a for the state and a reliability estimate of 1 for that expert, the
\* posterior of the Bayesian combination puts probability 1 on a and act
\* returns a, for any threshold below 1 and any action space of at least
\* two joint actions.
C21_CertainAdvice ==
    \A x \in Range(Experts) :
        (/\ SoleCertainAdviser(x)
         /\ RLess(clue.threshold, ROne)
         /\ Cardinality(JointActions(env)) >= 2) =>
            /\ PosteriorIsCertainOf(AdviceAtAct[x])
            /\ last.path = "advice"
            /\ last.action = AdviceAtAct[x]
            /\ pc = "clue_learn"

\* e2 alone remembers advice for the state, its one evaluation in the
\* window was a success, and the threshold is 9/10
C21_Witness ==
    /\ SoleCertainAdviser("e2")
    /\ clue.threshold = RNorm(9, 10)
    /\ clue.expert["e2"].outcomes = <<1>>
    /\ clue.expert["e1"].rho = RNorm(1, 2)
    /\ last.action = AdviceAtAct["e2"]
    /\ last.path = "advice"

\* act explored and no expert remembers advice for the state
ExploredUnadvised ==
    /\ last.op = "act"
    /\ last.path # "exploit"
    /\ DOMAIN AdviceAtAct = {}

\* the agents that differ from c in the reliability counts of the experts
\* and in the value estimates of the wrapped agent, not in advice memory
BeliefVariants(c) ==
    LET counted(ex, counts) ==
            [ex EXCEPT !.beta_parameters = counts,
                       !.optimal = counts[1], !.suboptimal = counts[2],
                       !.recent_rho = rho_of(counts)]
        agents == {c.agent, agent_reset(env),
                   agent_learn(agent_reset(env), last.state,
                               combination(env, 1), ROne)}
        counts == {<<1, 1>>, <<3, 0>>, <<0, 3>>}
    IN {[c EXCEPT !.agent = ag,
                  !.expert = [x \in Range(Experts) |->
                                 counted(c.expert[x], IF x = "e1" THEN k1 ELSE k2)]] :
            ag \in agents, k1 \in counts, k2 \in counts}

\* the actions act can return when it explores, for agent c in the state
\* of the last act
ExploreActions(c) ==
    {r.action : r \in {q \in act_results(update_rho(c), env, last.state, TRUE) :
                          q.path # "exploit"}}

\* C22: when act explores and no expert has remembered advice for the
\* state, the action is drawn at random over the joint action space: it is
\* a joint action, every joint action is a possible outcome, and the set of
\* possible outcomes is the same whatever the reliability counts and the
\* value estimates of the wrapped agent are.
C22_UnadvisedIsRandom ==
    ExploredUnadvised =>
        /\ last.path = "random"
        /\ last.action \in JointActions(env)
        /\ pc = "clue_learn"
        /\ \A v \in BeliefVariants(last.before) :
              ExploreActions(v) = JointActions(env)

\* in the second trial, after advice for the other state has moved the
\* reliability counts of an expert, act explores a state without advice and
\* returns an action that is not the greedy one of the wrapped agent
C22_Witness ==
    /\ ExploredUnadvised
    /\ clue.trial_count = 1
    /\ \E x \in Range(Experts) : clue.expert[x].beta_parameters # clue.cfg.initial_estimate
    /\ ~IsGreedy(clue, last.state, last.action)

(***************************************************************************)
(* UnreliableExpert: an expert of true reliability rho that discloses      *)
(* advice when the agent's regret since the last disclosure is large       *)
(* enough.  The oracle is a TruePolicyAgent: run.heap and run.policy.      *)
(***************************************************************************)
\* UnreliableExpert.__init__ for a rho within [0,1]; the counters do not
\* exist before the first reset
UnreliableExpert(e, rho, mu, gamma) ==
    [built |-> TRUE, rho |-> rho, mu |-> mu, gamma |-> gamma,
     action_table |-> StateTable(e.decision, e.domains, None, <<>>),
     curr_trial |-> None, last_advice |-> None,
     optimal_utility_sum |-> None, agent_utility_sum |-> None,
     disclosures |-> <<>>]

\* UnreliableExpert.reset; disclosures lists the trials of the run in which
\* the expert gave advice
UnreliableExpert_reset(ex) ==
    [ex EXCEPT !.curr_trial = Some(0), !.last_advice = Some(0),
               !.optimal_utility_sum = Some(RZero),
               !.agent_utility_sum = Some(RZero),
               !.disclosures = <<>>]

\* an expert that also considers the optimal action when it errs
suboptimal_or_optimal_actions(ex, optimal_action) ==
    {StateTable_index_to_assignment(ex.action_table, index) :
        index \in 0..(ex.action_table.size - 1)}

\* UnreliableExpert.advise, incorrect advice: any action but the optimal one
suboptimal_actions(ex, optimal_action) ==
    LET optimal_index == StateTable_assignment_to_index(ex.action_table, optimal_action)
        indices == (0..(ex.action_table.size - 1)) \ {optimal_index}
    IN {StateTable_index_to_assignment(ex.action_table, index) : index \in indices}

\* UnreliableExpert.advise once the optimal action is known: every advice
\* the draws allow
advise_given(ex, optimal_action) ==
    (IF RLess(RZero, ex.rho) THEN {optimal_action} ELSE {})
    \cup (IF RLess(ex.rho, ROne) THEN suboptimal_actions(ex, optimal_action) ELSE {})

\* UnreliableExpert.advise(state): [status, advice]; an error of oracle.act
\* is the error of advise
advise(ex, e, oracle, state) ==
    LET optimal == act(e, oracle.heap, oracle.policy, state)
    IN IF optimal.status # "returned"
       THEN {[status |-> optimal.status, advice |-> None]}
       ELSE {[status |-> "returned", advice |-> Some(a)] :
                a \in advise_given(ex, ActionOf(optimal))}

\* a deliberation that does not wait for mu trials
too_early_never(time_difference, mu) == FALSE

\* UnreliableExpert.deliberate, condition 1
too_early(time_difference, mu) == time_difference < mu

\* UnreliableExpert.deliberate, condition 2
too_little(utility_difference, time_difference, gamma) ==
    RLess(RDiv(utility_difference, Rat(time_difference)), gamma)

\* UnreliableExpert.deliberate: every [status, given, advice, expert] the
\* draws allow
deliberate(ex, e, oracle, state, action) ==
    LET curr_trial == ex.curr_trial[1] + 1
        counted == [ex EXCEPT !.curr_trial = Some(curr_trial)]
        optimal == act(e, oracle.heap, oracle.policy, state)
        optimal_utility == expected_utility(e, state, ActionOf(optimal))
        agent_utility == expected_utility(e, state, action)
        optimal_utility_sum == RAdd(ex.optimal_utility_sum[1], optimal_utility)
        agent_utility_sum == RAdd(ex.agent_utility_sum[1], agent_utility)
        summed == [counted EXCEPT !.optimal_utility_sum = Some(optimal_utility_sum),
                                  !.agent_utility_sum = Some(agent_utility_sum)]
        time_difference == curr_trial - ex.last_advice[1]
        utility_difference == RSub(optimal_utility_sum, agent_utility_sum)
        withheld == [status |-> "returned", given |-> FALSE, advice |-> None,
                     expert |-> summed]
    IN IF optimal.status # "returned"
       THEN {[status |-> optimal.status, given |-> FALSE, advice |-> None,
              expert |-> counted]}
       ELSE IF too_early(time_difference, ex.mu) THEN {withheld}
       ELSE IF too_little(utility_difference, time_difference, ex.gamma)
       THEN {withheld}
       ELSE {[status |-> "returned", given |-> TRUE, advice |-> Some(a),
              expert |-> [summed EXCEPT
                            !.last_advice = Some(curr_trial),
                            !.optimal_utility_sum = Some(RZero),
                            !.agent_utility_sum = Some(RZero),
                            !.disclosures = Append(@, curr_trial)]] :
                a \in advise_given(ex, ActionOf(optimal))}

(***************************************************************************)
(* SpecExpert: an oracle is built for a diagram, an expert is constructed  *)
(* around it and reset, and is then asked to deliberate trial after trial  *)
(* and to advise.                                                          *)
(***************************************************************************)
ExpertShapes == {<<1, 1>>, <<0, 2>>}

\* the experts constructed: rho, mu, gamma, and the trials of their runs
ExpertArguments ==
    [rho : {RZero, RNorm(1, 2), ROne}, mu : {1, 2},
     gamma : {RNorm(1, 100), ROne}, trials : {3}]

InitExpert ==
    /\ IsDiagramOfShapes(env, ExpertShapes)
    /\ pc = "start"
    /\ order = <<>>
    /\ pos = 0
    /\ run = NoRun
    /\ actState = EmptyAsst
    /\ actResult = NoAct
    /\ last = NoCall
    /\ table = NoTable
    /\ clue = NoAgent
    /\ expert = NoExpert

\* oracle = TruePolicyAgent(env)
NewOracle ==
    /\ pc = "start"
    /\ IF RewardInGraph(env)
       THEN /\ order' = getEliminationOrder(env, reward_ancestors(env))
            /\ run' = optimize(env, order')
       ELSE /\ run' = [NoRun EXCEPT !.status = "NetworkXError"]
            /\ UNCHANGED order
    /\ pc' = IF run'.status = "returned" THEN "oracle" ELSE "failed"
    /\ UNCHANGED <<env, pos, actState, actResult, last, table, clue, expert>>

\* expert = UnreliableExpert(env, oracle, rho, mu, gamma); expert.reset()
NewExpert ==
    /\ pc = "oracle"
    /\ \E args \in ExpertArguments :
         /\ expert' = UnreliableExpert_reset(
                          UnreliableExpert(env, args.rho, args.mu, args.gamma))
         /\ pos' = args.trials
    /\ last' = [op |-> "reset"]
    /\ pc' = "expert"
    /\ UNCHANGED <<env, order, run, actState, actResult, table, clue>>

\* expert.reset() at the start of a later run
ExpertReset ==
    /\ pc = "expert"
    /\ expert.curr_trial = Some(pos)
    /\ expert' = UnreliableExpert_reset(expert)
    /\ last' = [op |-> "reset"]
    /\ UNCHANGED <<env, pc, order, pos, run, actState, actResult, table, clue>>

\* expert.deliberate(state, action, reward) in a trial of a run
Deliberate ==
    /\ pc = "expert"
    /\ expert.curr_trial[1] < pos
    /\ \E state \in States(env), action \in JointActions(env) :
         \E r \in deliberate(expert, env, run, state, action) :
           /\ expert' = r.expert
           /\ last' = [op |-> "deliberate", state |-> state, action |-> action,
                       status |-> r.status, given |-> r.given,
                       advice |-> r.advice, before |-> expert]
           /\ pc' = IF r.status = "returned" THEN "expert" ELSE "expert_crashed"
    /\ UNCHANGED <<env, order, pos, run, actState, actResult, table, clue>>

\* expert.advise(state)
Advise ==
    /\ pc = "expert"
    /\ \E state \in States(env) :
         \E r \in advise(expert, env, run, state) :
           /\ last' = [op |-> "advise", state |-> state, status |-> r.status,
                       advice |-> r.advice, before |-> expert]
           /\ pc' = IF r.status = "returned" THEN "expert" ELSE "expert_crashed"
    /\ UNCHANGED <<env, order, pos, run, actState, actResult, table, clue, expert>>

NextExpert == NewOracle \/ NewExpert \/ ExpertReset \/ Deliberate \/ Advise

SpecExpert == InitExpert /\ [][NextExpert]_vars

(***************************************************************************)
(* Claims about the experts.                                               *)
(***************************************************************************)
\* what the oracle answers for the state of the last call of the expert
OracleAtCall == act(env, run.heap, run.policy, last.state)

\* the expert returned advice: from advise, or from a deliberate that gave
\* some
AdviceReturned ==
    /\ last.op \in {"advise", "deliberate"}
    /\ last.status = "returned"
    /\ last.advice # None

\* C23: for every state, an UnreliableExpert with rho = 1 always advises
\* exactly the action the oracle's act returns for the state, and one with
\* rho = 0 always advises a joint action different from it; advise returns
\* whenever the oracle's act does.  On the example with chance variable C,
\* decision D with parent C and reward +1 if D = C, else -1, the advice is
\* D = C for rho = 1 and D # C for rho = 0.
C23_ExtremeExperts ==
    /\ (last.op = "advise" /\ OracleAtCall.status = "returned") =>
          last.status = "returned" /\ last.advice # None
    /\ AdviceReturned =>
          /\ OracleAtCall.status = "returned"
          /\ last.advice[1] \in JointActions(env)
          /\ expert.rho = ROne => last.advice[1] = ActionOf(OracleAtCall)
          /\ expert.rho = RZero => last.advice[1] # ActionOf(OracleAtCall)
          /\ MatchingDiagram =>
                /\ expert.rho = ROne =>
                      last.advice[1][env.decision[1]] = last.state[env.chance[1]]
                /\ expert.rho = RZero =>
                      last.advice[1][env.decision[1]] # last.state[env.chance[1]]

\* on the example, the expert of rho = 0 is asked about C = TRUE and
\* advises D = FALSE
C23_Witness ==
    /\ MatchingDiagram
    /\ last.op = "advise"
    /\ last.status = "returned"
    /\ expert.rho = RZero
    /\ last.state = Put(EmptyAsst, env.chance[1], TRUE)
    /\ last.advice = Some(Put(EmptyAsst, env.decision[1], FALSE))

\* the last call was deliberate
Deliberated == last.op = "deliberate"

\* the trials since the last disclosure (or the reset), this one included
TrialsSinceDisclosure == expert.curr_trial[1] - last.before.last_advice[1]

\* the expected utility of the oracle's action minus that of the agent's
\* action, accumulated over those trials
RegretSinceDisclosure ==
    RSub(RAdd(last.before.optimal_utility_sum[1],
              expected_utility(env, last.state, ActionOf(OracleAtCall))),
         RAdd(last.before.agent_utility_sum[1],
              expected_utility(env, last.state, last.action)))

\* at least mu trials have elapsed and the regret per trial is at least gamma
DisclosureDue ==
    /\ TrialsSinceDisclosure >= expert.mu
    /\ RLeq(expert.gamma, RDiv(RegretSinceDisclosure, Rat(TrialsSinceDisclosure)))

\* the sums and the marker of the last disclosure start again from this trial
SumsReset ==
    /\ expert.optimal_utility_sum = Some(RZero)
    /\ expert.agent_utility_sum = Some(RZero)
    /\ expert.last_advice = expert.curr_trial

\* the sums have grown by the utilities of this trial, the marker is kept
SumsKept ==
    /\ expert.optimal_utility_sum =
          Some(RAdd(last.before.optimal_utility_sum[1],
                    expected_utility(env, last.state, ActionOf(OracleAtCall))))
    /\ expert.agent_utility_sum =
          Some(RAdd(last.before.agent_utility_sum[1],
                    expected_utility(env, last.state, last.action)))
    /\ expert.last_advice = last.before.last_advice

\* every disclosure of the run is at least mu trials after the one before
\* it, the first one at least mu trials after the reset
DisclosuresApart ==
    \A i \in 1..Len(expert.disclosures) :
        expert.disclosures[i] - (IF i = 1 THEN 0 ELSE expert.disclosures[i - 1])
            >= expert.mu

PyInt(n) == [type |-> "int", value |-> Rat(n)]
PyFloat(n, d) == [type |-> "float", value |-> RNorm(n, d)]
PyNone == [type |-> "NoneType", value |-> RZero]

\* trials, whether a wrapped agent is passed, initial_estimate and
\* sliding_window of ClueAgent(env, trials, agent, initial_estimate, ...)
ConfigArguments ==
    [trials : {PyInt(2), PyInt(0), PyInt(-1), PyFloat(5, 2), PyNone},
     agent : BOOLEAN,
     initial_estimate : {<<1, 1>>, <<1, 0>>, <<0, 0>>, <<-1, 2>>},
     sliding_window : {PyNone, PyInt(1), PyFloat(3, 2)}]

\* ClueAgent.__init__: the instance, or the exception raised
ClueAgent_init(args) ==
    IF ~args.agent /\ ~(args.trials.type = "int" /\ RLess(RZero, args.trials.value))
    THEN [built |-> FALSE, args |-> args,
          error |-> "Exception: invalid number of trials"]
    ELSE IF args.sliding_window.type \notin {"NoneType", "int"}
    THEN [built |-> FALSE, args |-> args,
          error |-> "Exception: sliding_window must be None or int"]
    ELSE [built |-> TRUE, args |-> args, error |-> "none",
          epsilon_steps |-> None, rho |-> None]

\* ClueAgent.reset(panel) on the instance, for a panel with an expert:
\* epsilon_steps = eps_fraction * float(trials), then the rho of the prior
ClueAgent_reset_prior(c) ==
    LET alpha == c.args.initial_estimate[1]
        beta == c.args.initial_estimate[2]
    IN IF c.args.trials.type = "NoneType"
       THEN [c EXCEPT !.error = "TypeError"]
       ELSE IF alpha + beta = 0
       THEN [c EXCEPT !.error = "ZeroDivisionError",
                      !.epsilon_steps = Some(RMul(RNorm(4, 5), c.args.trials.value))]
       ELSE [c EXCEPT !.epsilon_steps = Some(RMul(RNorm(4, 5), c.args.trials.value)),
                      !.rho = Some(RDiv(Rat(alpha), Rat(alpha + beta)))]

\* ClueAgent.act, first trial: fraction = min(1.0, trial_count / epsilon_steps)
ClueAgent_act_epsilon(c) ==
    IF c.epsilon_steps[1] = RZero THEN [c EXCEPT !.error = "ZeroDivisionError"]
    ELSE c

\* UnreliableExpert.__init__: the instance, or the exception raised
UnreliableExpert_init(e, rho, mu, gamma) ==
    IF RLeq(RZero, rho) /\ RLeq(rho, ROne) THEN UnreliableExpert(e, rho, mu, gamma)
    ELSE [built |-> FALSE, rho |-> rho, error |-> "Exception: Invalid rho"]

\* Utility.__init__ with a list Q0 of the given length and alpha = None
Utility_init(domains, nodes, Q0_size) ==
    IF Q0_size # StateTableSize(domains, nodes)
    THEN [built |-> FALSE, Q0_size |-> Q0_size,
          error |-> "Exception: Size of Q0 does not match"]
    ELSE [built |-> TRUE, Q0_size |-> Q0_size,
          utility |-> Utility(domains, nodes, RZero)]

\* the reliabilities passed to UnreliableExpert
ConfigRhos == {RNorm(-1, 2), RZero, RNorm(1, 2), ROne, RNorm(3, 2)}

InitConfig ==
    /\ env = ClueEnv
    /\ pc = "config"
    /\ order = <<>>
    /\ pos = 0
    /\ run = NoRun
    /\ actState = EmptyAsst
    /\ actResult = NoAct
    /\ last = NoCall
    /\ table = NoTable
    /\ clue = NoAgent
    /\ expert = NoExpert

\* agent = ClueAgent(env, trials, ...)
NewClueAgent ==
    /\ pc = "config"
    /\ \E args \in ConfigArguments : clue' = ClueAgent_init(args)
    /\ pc' = IF clue'.built THEN "config_built" ELSE "config_rejected"
    /\ last' = [op |-> "ClueAgent"]
    /\ UNCHANGED <<env, order, pos, run, actState, actResult, table, expert>>

\* agent.reset(panel)
ConfigReset ==
    /\ pc = "config_built"
    /\ clue' = ClueAgent_reset_prior(clue)
    /\ pc' = IF clue'.error = "none" THEN "config_reset" ELSE "config_crashed"
    /\ last' = [op |-> "reset"]
    /\ UNCHANGED <<env, order, pos, run, actState, actResult, table, expert>>

\* agent.act(state) in the first trial
ConfigAct ==
    /\ pc = "config_reset"
    /\ clue' = ClueAgent_act_epsilon(clue)
    /\ pc' = IF clue'.error = "none" THEN "config_acted" ELSE "config_crashed"
    /\ last' = [op |-> "act"]
    /\ UNCHANGED <<env, order, pos, run, actState, actResult, table, expert>>

\* expert = UnreliableExpert(env, oracle, rho)
NewUnreliableExpert ==
    /\ pc = "config"
    /\ \E rho \in ConfigRhos :
         expert' = UnreliableExpert_init(env, rho, 10, RNorm(1, 100))
    /\ pc' = IF expert'.built THEN "config_built_expert" ELSE "config_rejected"
    /\ last' = [op |-> "UnreliableExpert"]
    /\ UNCHANGED <<env, order, pos, run, actState, actResult, table, clue>>

\* utility = Utility(domains, Q0) with a list Q0
NewUtility ==
    /\ pc = "config"
    /\ \E Q0_size \in 7..9 :
         table' = Utility_init(env.domains, env.chance \o env.decision, Q0_size)
    /\ pc' = IF table'.built THEN "config_built_utility" ELSE "config_rejected"
    /\ last' = [op |-> "Utility"]
    /\ UNCHANGED <<env, order, pos, run, actState, actResult, clue, expert>>

NextConfig ==
    NewClueAgent \/ ConfigReset \/ ConfigAct \/ NewUnreliableExpert \/ NewUtility

SpecConfig == InitConfig /\ [][NextConfig]_vars

\* the arguments of a ClueAgent are valid: a positive integer of trials, a
\* prior of non-negative counts that are not both zero, and a window that
\* is None or an integer
ValidArguments(args) ==
    /\ args.trials.type = "int" /\ RLess(RZero, args.trials.value)
    /\ args.initial_estimate[1] >= 0 /\ args.initial_estimate[2] >= 0
    /\ args.initial_estimate[1] + args.initial_estimate[2] > 0
    /\ args.sliding_window.type \in {"NoneType", "int"}

\* C25: constructing a component with an invalid configuration (a trial
\* count that is not a positive integer, a reliability prior or a
\* probability outside its range, a table whose size does not match) fails
\* at construction: an instance that exists has valid arguments, and none
\* fails at reset or act.
C25_InvalidRejected ==
    /\ (clue.built /\ pc # "config") => ValidArguments(clue.args)
    /\ pc # "config_crashed"
    /\ (expert.built /\ pc # "config") =>
          RLeq(RZero, expert.rho) /\ RLeq(expert.rho, ROne)
    /\ (table.built /\ pc # "config") =>
          table.Q0_size = StateTableSize(env.domains, env.chance \o env.decision)

(***************************************************************************)
(* SpecAdvice: the runs of SpecWindow in which the caller of learn may     *)
(* also pass an advice mapping without an entry for some expert.           *)
(***************************************************************************)
\* the first expert, in the order of state_table_dict, without an entry
RECURSIVE FirstMissing(_, _)
FirstMissing(advice, k) ==
    IF k > Len(Experts) \/ Experts[k] \notin DOMAIN advice THEN k
    ELSE FirstMissing(advice, k + 1)

\* ClueAgent.learn for any advice mapping: advice[expert] raises KeyError
\* at the first expert without an entry, after trial_count, the wrapped
\* agent and the experts before it have been updated
learn_from(c, e, state, actions, reward, advice) ==
    LET k == FirstMissing(advice, 1)
        agent == agent_learn(c.agent, state, actions, reward)
    IN IF k > Len(Experts)
       THEN [status |-> "returned",
             clue |-> learn(c, e, state, actions, reward, advice)]
       ELSE [status |-> KeyError,
             clue |-> [c EXCEPT
                         !.trial_count = @ + 1,
                         !.agent = agent,
                         !.expert = [x \in Range(Experts) |->
                             IF IndexOf(Experts, x) < k
                             THEN learn_expert(c.cfg, c.expert[x], agent, e,
                                               state, actions, advice[x])
                             ELSE c.expert[x]]]]

\* advice mappings with an entry for some of the experts only
PartialAdvice(e) ==
    UNION {[D -> {None} \cup {Some(a) : a \in AdvisedActions(e)}] :
              D \in (SUBSET Range(Experts)) \ {Range(Experts)}}

\* agent.learn(state, action, reward, advice) with such a mapping
ClueLearnPartial ==
    /\ pc = "clue_learn"
    /\ \E advice \in PartialAdvice(env) :
         LET r == learn_from(clue, env, last.state, last.action,
                             step(env, last.state, last.action), advice)
         IN /\ clue' = r.clue
            /\ last' = [op |-> "learn", state |-> last.state, action |-> last.action,
                        reward |-> step(env, last.state, last.action),
                        advice |-> advice, before |-> clue]
            /\ pc' = IF r.status = "returned" THEN "clue_act" ELSE "clue_crashed"
    /\ UNCHANGED <<env, order, pos, run, actState, actResult, table, expert>>

NextAdvice == ClueReset \/ ClueAct \/ ClueLearn \/ ClueLearnPartial

SpecAdvice == InitWindow /\ [][NextAdvice]_vars

\* the mapping with None for every expert that has no entry
WithNone(advice) ==
    [x \in Range(Experts) |-> IF x \in DOMAIN advice THEN advice[x] ELSE None]

\* C26: in learn, an expert that has no entry in the advice mapping is
\* treated exactly like an expert whose entry is None: learn completes
\* normally and leaves the agent as the mapping with None for that expert
\* would, with no advice stored for the expert.
C26_MissingIsNone ==
    (last.op = "learn" /\ DOMAIN last.advice # Range(Experts)) =>
        /\ pc = "clue_act"
        /\ clue = learn(last.before, env, last.state, last.action, last.reward,
                        WithNone(last.advice))

\* reset was called on an agent that had completed a run
ResetAfterRun == last.op = "reset" /\ last.before.built

\* what the agent holds for expert x is what it holds at the start of a
\* first run: no advice for any state, the prior as counts and as
\* estimates, an empty window
ExpertForgotten(x) ==
    /\ \A s \in States(env) : remembered(clue, x, s) = None
    /\ clue.expert[x].beta_parameters = clue.cfg.initial_estimate
    /\ clue.expert[x].optimal = clue.cfg.initial_estimate[1]
    /\ clue.expert[x].suboptimal = clue.cfg.initial_estimate[2]
    /\ clue.expert[x].evals = <<>>
    /\ clue.expert[x].rho = rho_of(clue.cfg.initial_estimate)
    /\ clue.expert[x].recent_rho = rho_of(clue.cfg.initial_estimate)

\* act can return, for every state, what it can return on the agent as
\* first constructed and reset
ActsAsFresh ==
    \A s \in States(env), explore \in BOOLEAN :
        act_results(update_rho(clue), env, s, explore)
            = act_results(update_rho(ClueAgent_reset(env, clue.cfg)), env, s, explore)

\* C27: reset(panel) returns the agent to its initial per-run state
\* whatever act and learn calls preceded it: every expert's advice memory
\* is empty for every state, every count pair equals the configured prior,
\* the trial count is 0, the sliding window and the recency estimate are
\* cleared and the wrapped agent is reset, so that a run behaves as the
\* first run does.
C27_ResetForgets ==
    ResetAfterRun =>
        /\ \A x \in Range(Experts) : ExpertForgotten(x)
        /\ clue.trial_count = 0
        /\ clue.agent = agent_reset(env)
        /\ clue.cfg = last.before.cfg
        /\ clue.threshold = last.before.threshold
        /\ clue = ClueAgent_reset(env, last.before.cfg)
        /\ ActsAsFresh

\* the run before the reset left advice of e1 for a state, counts other
\* than the prior for e1 and a value estimate other than the initial one
C27_Witness ==
    /\ ResetAfterRun
    /\ last.before.trial_count = last.before.cfg.trials
    /\ \E s \in States(env) : remembered(last.before, "e1", s) # None
    /\ last.before.expert["e1"].beta_parameters # clue.cfg.initial_estimate
    /\ last.before.agent # agent_reset(env)
    /\ clue.trial_count = 0

\* the latest disclosure of expert x for state s in the run, as a pair of
\* the trial and the advice, or None
Told(c, x, s) ==
    c.expert[x].told[StateTable_assignment_to_index(c.expert[x].state_table, s) + 1]

\* the advice of that disclosure, or None
ToldAdvice(c, x, s) ==
    IF Told(c, x, s) = None THEN None ELSE Some(Told(c, x, s)[1][2])

\* C28: in a panel run each trial executes act, then the panel's
\* deliberation, then learn.  What act finds for a state in trial t is, for
\* each expert, the latest advice the expert disclosed for that state in a
\* trial before t, however many trials ago; advice disclosed in trial t is
\* in the memory only after the learn of trial t, where it replaces what
\* the same expert disclosed for the state before, and act stores nothing.
C28_AdviceOrder ==
    /\ (clue.built /\ pc \in {"clue_act", "clue_learn", "clue_crashed"}) =>
          \A x \in Range(Experts), s \in States(env) :
              /\ remembered(clue, x, s) = ToldAdvice(clue, x, s)
              /\ Told(clue, x, s) # None => Told(clue, x, s)[1][1] <= clue.trial_count
    /\ ActedOn =>
          /\ clue.trial_count = last.before.trial_count
          /\ \A x \in Range(Experts) :
                /\ remembered(clue, x, last.state) = remembered(last.before, x, last.state)
                /\ x \in DOMAIN AdviceAtAct =>
                      /\ AdviceAtAct[x] = Told(clue, x, last.state)[1][2]
                      /\ Told(clue, x, last.state)[1][1] < clue.trial_count + 1
    /\ Learned =>
          /\ clue.trial_count = last.before.trial_count + 1
          /\ \A x \in Range(Experts) :
                /\ last.advice[x] # None =>
                      Told(clue, x, last.state) = Some(<<clue.trial_count, last.advice[x][1]>>)
                /\ last.advice[x] = None =>
                      Told(clue, x, last.state) = Told(last.before, x, last.state)

\* in the second trial act explores the state of the first trial and
\* adopts what e1 disclosed there in the first trial
C28_Witness ==
    /\ ActedOn
    /\ clue.trial_count = 1
    /\ DOMAIN AdviceAtAct = {"e1"}
    /\ Told(clue, "e1", last.state) = Some(<<1, last.action>>)
    /\ last.path = "advice"

(***************************************************************************)
(* C29.  The factors left when the loop of optimize is over, and what the  *)
(* fixup of lines 401-412 makes of them.                                   *)
(***************************************************************************)
\* the run as the loop of optimize left it, before lines 385-416
Residual == OptimizeLoop(env, OptimizeStart(env), order)

\* optimize went through lines 385-416
Finished == Constructed /\ run.status # "NetworkXError" /\ Residual.status = "running"

\* the factor was built, directly or through other factors, from the utility
RECURSIVE DerivedFromUtility(_, _)
DerivedFromUtility(heap, fac) ==
    \/ heap[fac].kind = "Utility"
    \/ \E i \in 1..Len(heap[fac].facs) : DerivedFromUtility(heap, heap[fac].facs[i])

\* the number a factor of empty scope stands for
ScalarOf(heap, fac) == get_value(env.domains, heap, fac, EmptyAsst).val[1]

\* an identity factor: a constant 1 in which the utility has no part
IsIdentityFactor(heap, fac) ==
    /\ heap[fac].vars = <<>>
    /\ ~DerivedFromUtility(heap, fac)
    /\ ScalarOf(heap, fac) = ROne

\* the residual factors that carry the expected utility
ResidualUtilityFactors ==
    SelectSeq(Residual.proj_factors,
              LAMBDA fac : DerivedFromUtility(Residual.heap, fac)
                             /\ Residual.heap[fac].vars = <<>>)

\* more than one factor is left: one carries the expected utility, the
\* others are identity factors
UtilityPlusIdentities ==
    /\ Len(Residual.proj_factors) > 1
    /\ Len(ResidualUtilityFactors) = 1
    /\ \A i \in 1..Len(Residual.proj_factors) :
          \/ Residual.proj_factors[i] = ResidualUtilityFactors[1]
          \/ IsIdentityFactor(Residual.heap, Residual.proj_factors[i])

\* C29: when the factors left at the end of optimize are the factor that
\* carries the expected utility and identity factors, the fixup keeps the
\* former and optimize returns the expected utility, also when it is 1.
C29_FixupKeepsUtility ==
    (Finished /\ UtilityPlusIdentities)
        => /\ run.status = "returned"
           /\ run.proj_factors = ResidualUtilityFactors
           /\ run.value = Some(ScalarOf(Residual.heap, ResidualUtilityFactors[1]))

(***************************************************************************)
(* InfluenceDiagram.prune_state_nodes(state_nodes), as called by           *)
(* PartiallyReliableExpert.__init__ with the expert's hidden nodes.  The   *)
(* run holds the factors (heap) and new_facs (proj_factors); expert holds  *)
(* the policy and utility tables the expert keeps.                         *)
(***************************************************************************)
\* lines 111-116: fac_list = list(self.factors.values()), the Probs in the
\* order of the chance nodes and the utility last
PruneStart(e) ==
    [heap |-> InitialHeap(e),
     proj_factors |-> [i \in 1..(Len(e.chance) + 1) |-> i],
     policy |-> <<>>, status |-> "running", value |-> None]

\* lines 117-119: new_state_space is state_space without the nodes
new_state_space(e, state_nodes) ==
    SelectSeq(e.chance, LAMBDA n : ~Contains(state_nodes, n))

\* line 120: reward_fac = new_facs[-1]
reward_fac(r) == r.proj_factors[Len(r.proj_factors)]

\* lines 138-143: node_assignment, the state with the action's values
node_assignment(assignment, action_assignment) ==
    [n \in DOMAIN assignment \cup DOMAIN action_assignment |->
        IF n \in DOMAIN action_assignment THEN action_assignment[n] ELSE assignment[n]]

\* line 145: reward = reward_fac.get_value(var_assignment)
prune_reward(e, r, assignment, action_assignment) ==
    get_value(e.domains, r.heap, reward_fac(r),
              node_assignment(assignment, action_assignment)).val[1]

\* lines 140-149: the loop over the joint actions; best is None or the
\* pair of best_action and best_reward
RECURSIVE prune_best(_, _, _, _, _, _)
prune_best(e, r, action_assignments, assignment, action_index, best) ==
    IF action_index >= action_assignments.size THEN best
    ELSE LET action_assignment ==
                 StateTable_index_to_assignment(action_assignments, action_index)
             reward == prune_reward(e, r, assignment, action_assignment)
         IN prune_best(e, r, action_assignments, assignment, action_index + 1,
                       IF best = None \/ RLess(best[1][2], reward)
                       THEN Some(<<action_assignment, reward>>) ELSE best)

\* lines 122-151: the policy and utility tables
prune_tables(e, r, state_nodes) ==
    LET policy == StateTable(new_state_space(e, state_nodes), e.domains, None, <<>>)
        utility == StateTable(new_state_space(e, state_nodes) \o e.decision,
                              e.domains, None, <<>>)
        action_assignments == StateTable(e.decision, e.domains, None, <<>>)
        chosen(i) == prune_best(e, r, action_assignments,
                                StateTable_index_to_assignment(policy, i), 0, None)
        cell(j) == LET sa == StateTable_index_to_assignment(utility, j)
                   IN prune_reward(e, r,
                                   [n \in Range(policy.nodes) |-> sa[n]],
                                   [n \in Range(e.decision) |-> sa[n]])
    IN [built |-> TRUE, hidden_nodes |-> state_nodes,
        policy |-> [policy EXCEPT !.values =
                        [i \in 1..policy.size |->
                            IF chosen(i - 1) = None THEN None
                            ELSE Some(chosen(i - 1)[1][1])]],
        utility |-> [utility EXCEPT !.values =
                        [j \in 1..utility.size |-> Some(cell(j - 1))]]]

\* PartiallyReliableExpert.advise(state)
partial_advise(ex, state) ==
    ex.policy.values[StateTable_assignment_to_index(ex.policy, state) + 1]

\* the diagrams a partially informed expert is built on
PruneShapes == {<<1, 1>>, <<2, 1>>}

\* the lists of hidden nodes: distinct chance nodes in any order
HiddenNodes(e) ==
    UNION {Perms(S) : S \in SUBSET Range(e.chance)}

\* prune_state_nodes reads no parent set of a decision; the decisions are
\* taken without parents and a utility on two nodes or more is one of
\* the BlockTables
IsPruneDiagram(e) ==
    /\ IsDiagramOfShapes(e, PruneShapes)
    /\ \A d \in Range(e.decision) : e.dparents[d] = {}
    /\ Len(e.reward_parents) >= 2 => e.utility \in BlockTables(Len(e.reward_parents))

InitPrune ==
    /\ IsPruneDiagram(env)
    /\ pc = "start"
    /\ order = <<>>
    /\ pos = 0
    /\ run = NoRun
    /\ actState = EmptyAsst
    /\ actResult = NoAct
    /\ last = NoCall
    /\ table = NoTable
    /\ clue = NoAgent
    /\ expert = NoExpert

\* PartiallyReliableExpert(env, hidden_nodes) up to the loop of line 117
NewPartialExpert ==
    /\ pc = "start"
    /\ \E h \in HiddenNodes(env) : order' = h
    /\ run' = PruneStart(env)
    /\ pos' = 1
    /\ pc' = "prune"
    /\ UNCHANGED <<env, actState, actResult, last, table, clue, expert>>

\* lines 117-119: one turn of the loop
PruneEliminate ==
    /\ pc = "prune"
    /\ pos <= Len(order)
    /\ LET r == eliminate_var(env.domains, run.heap, run.proj_factors, order[pos])
       IN run' = [run EXCEPT !.heap = r.heap, !.proj_factors = r.factors]
    /\ pos' = pos + 1
    /\ UNCHANGED <<env, pc, order, actState, actResult, last, table, clue, expert>>

\* lines 120-152, then PartiallyReliableExpert.__init__ keeps the tables
PruneScore ==
    /\ pc = "prune"
    /\ pos > Len(order)
    /\ expert' = prune_tables(env, run, order)
    /\ pc' = "pruned"
    /\ UNCHANGED <<env, order, pos, run, actState, actResult, last, table, clue>>

\* PartiallyReliableExpert.advise on a state
PartialAdvise ==
    /\ pc = "pruned"
    /\ \E s \in States(env) :
          /\ actState' = s
          /\ actResult' = [status |-> "advised",
                           action |-> partial_advise(expert,
                                         [n \in Range(expert.policy.nodes) |-> s[n]])]
    /\ UNCHANGED <<env, pc, order, pos, run, last, table, clue, expert>>

NextPrune == NewPartialExpert \/ PruneEliminate \/ PruneScore \/ PartialAdvise

SpecPrune == InitPrune /\ [][NextPrune]_vars

(***************************************************************************)
(* C30.  The factor prune_state_nodes scores with, and the policy it       *)
(* stores.                                                                 *)
(***************************************************************************)
Pruned == pc = "pruned"

\* the visible states and the score of an action in one of them
VisibleStates == [Range(expert.policy.nodes) -> Range(Boolean)]
ScoreUnder(fac, s, a) ==
    get_value(env.domains, run.heap, fac, node_assignment(s, a)).val[1]

\* the policy's action for s scores at least as much as every action
\* under the factor
PolicyMaximizes(fac) ==
    \A s \in VisibleStates :
        /\ partial_advise(expert, s) # None
        /\ \A a \in JointActions(env) :
              RLeq(ScoreUnder(fac, s, a), ScoreUnder(fac, s, partial_advise(expert, s)[1]))

\* C30: whatever the hidden nodes and their order, the factor that scores
\* the pairs of visible state and action after the eliminations is the one
\* built from the utility, and the policy stores for each visible state an
\* action with the largest score under that factor.
C30_ScoresWithUtility ==
    Pruned => /\ DerivedFromUtility(run.heap, reward_fac(run))
              /\ PolicyMaximizes(reward_fac(run))

=============================================================================
